---- MODULE Spec2Model ----
(***************************************************************************)
(* The transfer engine of the cp command of s3cli-mini: the uploader       *)
(* (cmd/internal/cp/upload.go), the copier of remote-to-remote copies and  *)
(* the worker pool, contexts and signal handler of cmd/internal/cp/cp.go.  *)
(*                                                                         *)
(* One main goroutine hands the objects of the run to upload() / copy()    *)
(* one after the other; every part request runs in a goroutine of its own  *)
(* that holds one slot of the semaphore; every multipart object has one    *)
(* completion goroutine.  A store request is a pair of steps: the step     *)
(* that issues it and the step in which it returns, with a result the      *)
(* store chooses.  A request returns success only while its context is     *)
(* live; it can return an error at any time.                               *)
(***************************************************************************)
EXTENDS Integers, Sequences, FiniteSets, TLC

\* Program constants, scaled down so that object sizes can be enumerated:
\* a chunk is 2 bytes instead of 5 MiB, the CopyObject limit equals one chunk
\* (as the repository's tests set it) and the pool has 2 slots instead of 4.
copyChunkBytes == 2
maxCopyObjectBytes == 2
parallel == 2

\* Bounds of the model.
MaxObjects == 2
MaxSize == 4
\* the longest list of positional arguments
MaxArgs == 3
\* the keys of a listing and the keys of a full page (recursive download)
MaxKeys == 3
PageSize == 2

Objs == 1..MaxObjects
MaxParts == (MaxSize \div copyChunkBytes) + 1
PartNums == 1..MaxParts
Sizes == 0..MaxSize
\* the bytes of all objects of a run together: as many as the parts of the
\* largest object can carry
MaxTotal == MaxParts * copyChunkBytes

Min(a, b) == IF a <= b THEN a ELSE b

Modes == {"stdins3", "locals3", "locals3recursive", "s3s3", "s3s3recursive"}

\* The objects a run of each mode hands to the engine.  A "file" is a regular
\* file (os.File: Stat gives the size, ReadAt is available), a "stream" is
\* standard input that is a pipe, an "object" is the source of a copy.
RECURSIVE TotalSize(_)
TotalSize(js) == IF js = <<>> THEN 0 ELSE js[Len(js)].size + TotalSize(SubSeq(js, 1, Len(js) - 1))

\* failAt: the offset at which Read of a stream returns an error (the bytes
\* before it are delivered); -1 when the source is read without an error.
Job(k) ==
  {j \in [kind : {k}, size : Sizes, failAt : -1..MaxSize] :
     j.failAt <= j.size /\ (j.failAt >= 0 => k = "stream")}
JobLists(k, lens) ==
  {js \in UNION {[1..n -> Job(k)] : n \in lens} : TotalSize(js) <= MaxTotal}
JobsOf(m) ==
  CASE m = "stdins3" -> JobLists("stream", {1})
    [] m = "locals3" -> JobLists("file", {1})
    [] m = "locals3recursive" -> JobLists("file", 0..MaxObjects)
    [] m = "s3s3" -> JobLists("object", {1})
    [] m = "s3s3recursive" -> JobLists("object", 0..MaxObjects)

VARIABLES
  mode,         \* which top-level operation of client.Run is running
  jobs,         \* the objects of the run, in the order they are handed over
  mainPc,       \* position of the main goroutine
  cur,          \* index in jobs of the object the main goroutine works on
  u,            \* fields and locals of the current uploader / copier
  walkErr,      \* the error fastwalk.Walk returned (locals3recursive)
  ret,          \* what the top-level operation returned
  ctxDone,      \* client.ctx is cancelled
  ctxAbortDone, \* client.ctxAbort is cancelled
  sigCount,     \* count of handleSignal: 0, 1, or 2 for every larger value
  semaphore,    \* number of elements in the channel client.semaphore
  cwg,          \* counter of client.wg
  wg,           \* per object: counter of the WaitGroup of upload() / copy()
  req,          \* per object and part number (0: PutObject / CopyObject):
                \* position of the goroutine started for that request
  fin,          \* per object: position of the completion goroutine
  parts,        \* per object: u.parts / c.parts, part numbers in append order
  closed,       \* per object: u.body has been closed
  mpu,          \* the store: state of the multipart upload of each object
  nCreate,      \* per object: CreateMultipartUpload calls issued
  nComplete,    \* per object: CompleteMultipartUpload calls issued
  nAbort,       \* per object: AbortMultipartUpload calls issued
  completeArg,  \* per object: the Parts of the CompleteMultipartUpload call
  sent,         \* per object: the part-level requests issued, in order
  okParts,      \* per object: part numbers whose request returned success
  badParts,     \* per object: part numbers whose request returned an error
  cutShort,     \* per object: acquire() returned false in the dispatch loop
  barrier,      \* per object: client.ctx as the completion goroutine saw it
  failedCalls,  \* per object: the calls, other than the part-level requests,
                \* that returned an error
  args,         \* the positional arguments of the command line
  cli,          \* the flags as given on the command line
  pkg,          \* the package-level flag variables of cp.go
  c,            \* fields of the client that Run sets: acl, expires, followSymlinks
  runPc,        \* position of the command: Run, client.Run, the handler, exit
  exitStatus,   \* exit status of the process; -1 while it runs
  stderr,       \* the lines written to the error stream, in order
  calls,        \* the store requests of the command, in order, with their input
  signalHandler,\* go c.handleSignal() has been started
  fsOps,        \* os.Open calls and directory traversals of the handler
  todo,         \* entries of the walk / keys of the listing not yet visited
  jobsRun,      \* the jobs of the command: source, result
  chResult,     \* the channel chResult of s3localrecursive
  pages,        \* the listing: the number of keys of each page, in order
  lister,       \* the lister goroutine: position, page, index in the page
  chSource,     \* the channel chSource: keys sent and not yet received
  srcClosed,    \* chSource has been closed
  nClose,       \* number of times chResult has been closed
  worker,       \* per worker goroutine: position and the key at hand
  dwg,          \* counter of the WaitGroup of s3localrecursive
  loopPc,       \* position of the loop over chResult
  dlErr,        \* the variable err of s3localrecursive is not nil
  downloads,    \* per key: the number of calls of download with it
  lateSends,    \* keys the lister sent although client.ctx was already done
  printed,      \* per key (0: the lister): the kinds of the lines printed for it
  bucket        \* the keys of the source bucket that the listing went through

mainVars == <<mode, jobs, mainPc, cur, u, walkErr, ret>>
ctxVars == <<ctxDone, ctxAbortDone, sigCount>>
poolVars == <<semaphore, cwg, wg, req>>
objVars == <<fin, parts, closed>>
storeVars == <<mpu, nCreate, nComplete, nAbort, completeArg>>
histVars == <<sent, okParts, badParts, cutShort, barrier>>
errVars == <<failedCalls>>
\* the goroutines of the recursive download, which are stepped one by one
\* only in DlSpec
dlVars == <<pages, lister, chSource, srcClosed, nClose, worker, dwg, loopPc, dlErr,
            downloads, lateSends, printed>>
cmdVars == <<args, cli, pkg, c, runPc, exitStatus, stderr, calls, signalHandler,
             fsOps, todo, jobsRun, chResult, dlVars, bucket>>
vars == <<mainVars, ctxVars, poolVars, objVars, storeVars, histVars, errVars, cmdVars>>


----------------------------------------------------------------------------
\* The command line.  A path is a sequence of one-character strings.

s3scheme == <<"s", "3", ":", "/", "/">>
srcStdin == <<"-">>
distStdout == <<"-">>

\* strings.HasPrefix, strings.TrimPrefix
HasPrefix(s, prefix) == Len(s) >= Len(prefix) /\ SubSeq(s, 1, Len(prefix)) = prefix
TrimPrefix(s, prefix) == IF HasPrefix(s, prefix) THEN SubSeq(s, Len(prefix) + 1, Len(s)) ELSE s
\* strings.IndexByte and strings.LastIndex of one byte: the index (from 0) of
\* the first / last ch in s, -1 when there is none.
IndexByte(s, ch) ==
  IF \E i \in 1..Len(s) : s[i] = ch
  THEN (CHOOSE i \in 1..Len(s) : s[i] = ch /\ \A j \in 1..(i - 1) : s[j] # ch) - 1
  ELSE -1
LastIndexByte(s, ch) ==
  IF \E i \in 1..Len(s) : s[i] = ch
  THEN (CHOOSE i \in 1..Len(s) : s[i] = ch /\ \A j \in (i + 1)..Len(s) : s[j] # ch) - 1
  ELSE -1

\* parsePath: the bucket is what precedes the first '/', the key what follows.
parsePath(path) ==
  LET pth == TrimPrefix(path, s3scheme)
      idx == IndexByte(pth, "/")
  IN IF idx > 0
     THEN [bucket |-> SubSeq(pth, 1, idx), key |-> SubSeq(pth, idx + 2, Len(pth))]
     ELSE [bucket |-> pth, key |-> <<>>]

\* path.Base and, on a system whose separator is '/', filepath.Base: "." for
\* the empty path, trailing slashes dropped, then what follows the last slash;
\* "/" for a path of slashes only.
RECURSIVE stripTrailingSlashes(_)
stripTrailingSlashes(s) ==
  IF s # <<>> /\ s[Len(s)] = "/" THEN stripTrailingSlashes(SubSeq(s, 1, Len(s) - 1)) ELSE s
Base(path) ==
  IF path = <<>> THEN <<".">>
  ELSE LET t == stripTrailingSlashes(path)
           r == SubSeq(t, LastIndexByte(t, "/") + 2, Len(t))
       IN IF r = <<>> THEN <<"/">> ELSE r

\* the destination key of a non-recursive upload or copy (locals3, s3s3): the
\* base name of the source is appended to an empty key and to a key that ends
\* with '/'.
destKey_unlessEmpty(key, src) ==
  IF key # <<>> /\ key[Len(key)] = "/" THEN key \o Base(src) ELSE key
destKey(key, src) ==
  IF key = <<>> \/ key[Len(key)] = "/" THEN key \o Base(src) ELSE key

\* nullableString: the empty string is sent as no value.
Absent == <<"<", "n", "i", "l", ">">>
nullableString(str) == IF str = <<>> THEN Absent ELSE str

\* parseACL: the canned ACL for one of the seven names and for the empty
\* string, an error for any other value.
CannedACLs == {"private", "public-read", "public-read-write", "authenticated-read",
               "aws-exec-read", "bucket-owner-read", "bucket-owner-full-control"}
parseACL_anyValue(value) == [acl |-> value, err |-> FALSE]
parseACL(value) ==
  IF value = "" \/ value \in CannedACLs
  THEN [acl |-> value, err |-> FALSE]
  ELSE [acl |-> "", err |-> TRUE]

\* time.Parse(time.RFC3339, value) on the values the model draws --expires
\* from: a date-time with a zone parses, a bare date and a word do not.
ExpiresValues == {"", "2026-01-02T15:04:05Z", "2026-01-02T15:04:05+09:00", "2026-01-02", "tomorrow"}
parseRFC3339(value) ==
  IF value \in {"2026-01-02T15:04:05Z", "2026-01-02T15:04:05+09:00"}
  THEN [t |-> value, err |-> FALSE]
  ELSE [t |-> "", err |-> TRUE]


\* The values --acl is drawn from: absent, the seven canned ACLs, two others.
AclValues == {""} \cup CannedACLs \cup {"public", "Private"}

\* The flags --cache-control and --content-disposition as given on the command
\* line: a sequence of <<flag, value>>, each flag at most once, in either order.
optCacheControl == <<"cache-control", <<"n", "o">> >>
optContentDisposition == <<"content-disposition", <<"a", "t">> >>
OptLists == {<<>>, <<optCacheControl>>, <<optContentDisposition>>,
             <<optCacheControl, optContentDisposition>>,
             <<optContentDisposition, optCacheControl>>}

\* Init: the package variable each of the two flags is bound to by
\* flags.StringVar (cp.go lines 66 and 67).
flagVariable(flag) ==
  CASE flag = "cache-control" -> "cacheControl"
    [] flag = "content-disposition" -> "cacheControl"

\* the package variables before the command line is parsed: the defaults that
\* Init declares.
flagDefaults ==
  [dryrun |-> FALSE, recursive |-> FALSE, followSymlinks |-> TRUE,
   noFollowSymlinks |-> FALSE, acl |-> "", expires |-> "",
   cacheControl |-> <<>>, contentDisposition |-> <<>>]

\* the flag library assigns the value of every flag given to the variable the
\* flag is bound to, in the order of the command line.
RECURSIVE setOpts(_, _)
setOpts(vs, opts) ==
  IF opts = <<>> THEN vs
  ELSE setOpts([vs EXCEPT ![flagVariable(opts[1][1])] = opts[1][2]], Tail(opts))

\* The paths a positional argument is drawn from.
ArgPaths ==
  {<<"f">>, <<"d", "/", "f">>, srcStdin,
   s3scheme \o <<"b">>, s3scheme \o <<"b", "/">>, s3scheme \o <<"b", "/", "k">>,
   s3scheme \o <<"b", "/", "p", "/">>, s3scheme \o <<"b", "/", "p", "/", "k">>}
\* the paths the arguments of a recursive run are drawn from
DirPaths == {<<"d">>, s3scheme \o <<"b", "/", "p", "/">>, s3scheme \o <<"b", "/", "k">>}
\* Argument lists: every pair of paths, and one list of each other length.
ArgLists ==
  UNION {IF n = 2 THEN [1..2 -> ArgPaths \cup DirPaths] ELSE {[i \in 1..n |-> <<"f">>]} : n \in 0..MaxArgs}

\* Command lines.  --expires is given only with an --acl that is accepted (it
\* is not read otherwise); the flags that select and shape the transfer are
\* given only without --acl and --expires; --cache-control and
\* --content-disposition are given only without --dryrun (which builds no
\* request), --recursive and --no-follow-symlinks.
CommandLines ==
  {cl \in [dryrun : BOOLEAN, recursive : BOOLEAN, noFollowSymlinks : BOOLEAN,
           acl : AclValues, expires : ExpiresValues, opts : OptLists] :
     /\ parseACL(cl.acl).err => cl.expires = ""
     /\ (parseACL(cl.acl).err \/ (cl.expires # "" /\ parseRFC3339(cl.expires).err)) =>
          (~cl.dryrun /\ ~cl.recursive /\ ~cl.noFollowSymlinks /\ cl.opts = <<>>)
     /\ (cl.acl # "" \/ cl.expires # "") =>
          (~cl.recursive /\ ~cl.noFollowSymlinks /\ cl.opts = <<>>)
     /\ cl.opts # <<>> => (~cl.dryrun /\ ~cl.noFollowSymlinks /\ ~cl.recursive)}

\* the goroutines of the recursive download before s3localrecursive starts
\* them: no page listed, both channels empty and open.
Workers == 1..parallel
DlIdle ==
  /\ pages = <<>>
  /\ lister = [pc |-> "none", page |-> 0, idx |-> 0]
  /\ chSource = <<>>
  /\ srcClosed = FALSE
  /\ nClose = 0
  /\ worker = [w \in Workers |-> [pc |-> "none", key |-> 0]]
  /\ dwg = 0
  /\ loopPc = "none"
  /\ dlErr = FALSE
  /\ downloads = [k \in 1..MaxKeys |-> 0]
  /\ lateSends = 0
  /\ printed = [k \in 0..MaxKeys |-> {}]

\* the state of the command while the engine transfers: flags parsed and
\* validated, signal handler started, handler running.
CmdHandedOver ==
  /\ args = <<>>
  /\ cli = [dryrun |-> FALSE, recursive |-> FALSE, noFollowSymlinks |-> FALSE,
            acl |-> "", expires |-> "", opts |-> <<>>]
  /\ pkg = flagDefaults
  /\ c = [acl |-> "", expires |-> "", followSymlinks |-> TRUE]
  /\ runPc = "transfer"
  /\ exitStatus = -1
  /\ stderr = <<>>
  /\ calls = <<>>
  /\ signalHandler = TRUE
  /\ fsOps = <<>>
  /\ todo = <<>>
  /\ jobsRun = <<>>
  /\ chResult = <<>>
  /\ bucket = <<>>

NoU == [totalSize |-> -1, readerPos |-> 0, pos |-> 0, n |-> 0, err |-> "nil", num |-> 0]

Init ==
  /\ mode \in Modes
  /\ jobs \in JobsOf(mode)
  /\ mainPc = "next"
  /\ cur = 1
  /\ u = NoU
  /\ walkErr = FALSE
  /\ ret = "none"
  /\ ctxDone = FALSE
  /\ ctxAbortDone = FALSE
  /\ sigCount = 0
  /\ semaphore = 0
  /\ cwg = 0
  /\ wg = [o \in Objs |-> 0]
  /\ req = [o \in Objs |-> [p \in 0..MaxParts |-> "none"]]
  /\ fin = [o \in Objs |-> "none"]
  /\ parts = [o \in Objs |-> <<>>]
  /\ closed = [o \in Objs |-> FALSE]
  /\ mpu = [o \in Objs |-> "none"]
  /\ nCreate = [o \in Objs |-> 0]
  /\ nComplete = [o \in Objs |-> 0]
  /\ nAbort = [o \in Objs |-> 0]
  /\ completeArg = [o \in Objs |-> <<>>]
  /\ sent = [o \in Objs |-> <<>>]
  /\ okParts = [o \in Objs |-> {}]
  /\ badParts = [o \in Objs |-> {}]
  /\ cutShort = [o \in Objs |-> FALSE]
  /\ barrier = [o \in Objs |-> "none"]
  /\ failedCalls = [o \in Objs |-> {}]
  /\ CmdHandedOver
  /\ DlIdle

Job1 == jobs[cur]
IsUpload(o) == o \in DOMAIN jobs /\ jobs[o].kind \in {"file", "stream"}
IsCopy(o) == o \in DOMAIN jobs /\ jobs[o].kind = "object"

----------------------------------------------------------------------------
\* Pure functions of the uploader.

\* uploader.initSize: the size of a regular file is known, that of a pipe is not.
initSize(job) == IF job.kind = "file" THEN job.size ELSE -1

\* uploader.nextReader.  With a known size and a ReaderAt the chunk is a
\* section of the file and err is io.EOF when it is the last one.  Otherwise
\* up to copyChunkBytes bytes are read into a buffer by bytes.Buffer.ReadFrom,
\* which reports the end of the stream as a nil error and returns the bytes
\* read before an error of Read together with that error.
nextReader_lastChunkStrict(uu, job) ==
  IF uu.totalSize >= 0 /\ job.kind = "file"
  THEN LET remain == uu.totalSize - uu.readerPos
           n == IF remain < copyChunkBytes THEN remain ELSE copyChunkBytes
       IN [uu EXCEPT !.pos = uu.readerPos, !.n = n,
                     !.err = IF remain < copyChunkBytes THEN "EOF" ELSE "nil",
                     !.readerPos = uu.readerPos + n]
  ELSE LET avail == (IF job.failAt >= 0 THEN job.failAt ELSE job.size) - uu.readerPos
           n == Min(copyChunkBytes, avail)
       IN [uu EXCEPT !.pos = uu.readerPos, !.n = n,
                     !.err = IF job.failAt >= 0 /\ avail < copyChunkBytes
                             THEN "read" ELSE "nil",
                     !.readerPos = uu.readerPos + n]

nextReader_dropsShortChunk(uu, job) ==
  IF uu.totalSize >= 0 /\ job.kind = "file"
  THEN LET remain == uu.totalSize - uu.readerPos
           n == IF remain <= copyChunkBytes THEN remain ELSE copyChunkBytes
       IN [uu EXCEPT !.pos = uu.readerPos, !.n = n,
                     !.err = IF remain <= copyChunkBytes THEN "EOF" ELSE "nil",
                     !.readerPos = uu.readerPos + n]
  ELSE LET avail == (IF job.failAt >= 0 THEN job.failAt ELSE job.size) - uu.readerPos
           n == IF avail < copyChunkBytes THEN 0 ELSE copyChunkBytes
       IN [uu EXCEPT !.pos = uu.readerPos, !.n = n,
                     !.err = IF job.failAt >= 0 /\ avail < copyChunkBytes
                             THEN "read" ELSE "nil",
                     !.readerPos = uu.readerPos + n]

nextReader(uu, job) ==
  IF uu.totalSize >= 0 /\ job.kind = "file"
  THEN LET remain == uu.totalSize - uu.readerPos
           n == IF remain <= copyChunkBytes THEN remain ELSE copyChunkBytes
       IN [uu EXCEPT !.pos = uu.readerPos, !.n = n,
                     !.err = IF remain <= copyChunkBytes THEN "EOF" ELSE "nil",
                     !.readerPos = uu.readerPos + n]
  ELSE LET avail == (IF job.failAt >= 0 THEN job.failAt ELSE job.size) - uu.readerPos
           n == Min(copyChunkBytes, avail)
       IN [uu EXCEPT !.pos = uu.readerPos, !.n = n,
                     !.err = IF job.failAt >= 0 /\ avail < copyChunkBytes
                             THEN "read" ELSE "nil",
                     !.readerPos = uu.readerPos + n]

\* sort.Sort(completedPartsByPartNumber(parts)): ascending by part number.
RECURSIVE insertPart(_, _)
insertPart(s, x) ==
  IF s = <<>> THEN <<x>>
  ELSE IF x < Head(s) THEN <<x>> \o s
  ELSE <<Head(s)>> \o insertPart(Tail(s), x)

completedPartsByPartNumber_unsorted(s) == s

RECURSIVE completedPartsByPartNumber(_)
completedPartsByPartNumber(s) ==
  IF s = <<>> THEN <<>>
  ELSE insertPart(completedPartsByPartNumber(SubSeq(s, 1, Len(s) - 1)), s[Len(s)])

----------------------------------------------------------------------------
\* The worker pool (client.acquire / client.release) and setError.

\* client.acquire: the select has two cases; when both are ready either is taken.
acquireSlot_unbounded == TRUE
acquireSlot == semaphore < parallel
acquireCancelled == ctxDone

\* the select of setError: nothing is done when client.ctx is already done.
setErrorSkips == ctxDone

\* a request on a context returns success only while the context is live.
MayReturn(ok, done) == ok => ~done

\* wg.Wait() of a completion goroutine returns: every part goroutine of the
\* object has called wg.Done().
wgWait_noBarrier(o) == TRUE
wgWait(o) == wg[o] = 0

\* client.wg.Wait() of the top-level operation returns.
clientWgWait_noWait == TRUE
clientWgWait == cwg = 0

\* the context AbortMultipartUpload and CompleteMultipartUpload are called
\* with is client.ctxAbort.
finalCallCtxDone_workingCtx == ctxDone
finalCallCtxDone == ctxAbortDone

\* err != nil after CreateMultipartUpload: setError and return.
createErr_ignored(ok) == FALSE
createErr(ok) == ~ok

----------------------------------------------------------------------------
\* client.handleSignal, one signal received: the first signal cancels ctx,
\* every later one ctxAbort.  count is only ever compared with 0; it is kept
\* as 0, 1 or 2, 2 standing for every larger value.
signalCancels_cleanupFirst(count) == IF count = 0 THEN "ctxAbort" ELSE "ctx"
signalCancels(count) == IF count = 0 THEN "ctx" ELSE "ctxAbort"

handleSignal ==
  /\ mainPc # "done"
  /\ IF signalCancels(sigCount) = "ctx"
     THEN ctxDone' = TRUE /\ UNCHANGED ctxAbortDone
     ELSE ctxAbortDone' = TRUE /\ UNCHANGED ctxDone
  /\ sigCount' = IF sigCount < 2 THEN sigCount + 1 ELSE sigCount
  /\ UNCHANGED <<mainVars, poolVars, objVars, storeVars, histVars>>
  /\ UNCHANGED <<errVars, cmdVars>>

----------------------------------------------------------------------------
\* The main goroutine.

\* the callback of fastwalk.Walk in locals3recursive returns ctx.Err() when
\* client.ctx is done; Walk stops and returns that error.
walkCancelled ==
  /\ mainPc = "next" /\ cur <= Len(jobs)
  /\ mode = "locals3recursive" /\ ctxDone
  /\ walkErr' = TRUE
  /\ mainPc' = "wait"
  /\ UNCHANGED <<mode, jobs, cur, u, ret, ctxVars, poolVars, objVars, storeVars, histVars>>
  /\ UNCHANGED <<errVars, cmdVars>>

\* uploader.upload up to the CreateMultipartUpload call: initSize, the first
\* nextReader, and the choice between singlePartUpload, setError (an error
\* of the first read) and multipart.
upload ==
  /\ mainPc = "next" /\ cur <= Len(jobs) /\ IsUpload(cur)
  /\ ~(mode = "locals3recursive" /\ ctxDone)
  /\ LET u1 == nextReader([NoU EXCEPT !.totalSize = initSize(Job1)], Job1)
     IN /\ u' = u1
        /\ CASE u1.err = "EOF" ->
                  mainPc' = "single" /\ UNCHANGED <<cur, nCreate, failedCalls>>
             [] u1.err = "read" ->
                  /\ failedCalls' = [failedCalls EXCEPT ![cur] = @ \cup {"Read"}]
                  /\ UNCHANGED nCreate
                  /\ IF setErrorSkips
                     THEN mainPc' = "next" /\ cur' = cur + 1
                     ELSE mainPc' = "seterr" /\ UNCHANGED cur
             [] OTHER ->
                  /\ mainPc' = "create"
                  /\ nCreate' = [nCreate EXCEPT ![cur] = @ + 1]
                  /\ UNCHANGED <<cur, failedCalls>>
  /\ UNCHANGED <<mode, jobs, walkErr, ret, ctxVars, poolVars, objVars,
                 mpu, nComplete, nAbort, completeArg, histVars>>
  /\ UNCHANGED cmdVars

\* CreateMultipartUpload returns to upload(): on success the dispatch loop
\* starts with num = 1, on error setError is called and upload() returns.
uploadCreateReturn(ok) ==
  /\ mainPc = "create" /\ IsUpload(cur)
  /\ MayReturn(ok, ctxDone)
  /\ IF ~createErr(ok)
     THEN /\ mpu' = [mpu EXCEPT ![cur] = IF ok THEN "inprogress" ELSE @]
          /\ u' = [u EXCEPT !.num = 1]
          /\ mainPc' = "loop"
          /\ UNCHANGED cur
     ELSE /\ UNCHANGED <<mpu, u>>
          /\ IF setErrorSkips
             THEN mainPc' = "next" /\ cur' = cur + 1
             ELSE mainPc' = "seterr" /\ UNCHANGED cur
  /\ UNCHANGED <<mode, jobs, walkErr, ret, ctxVars, poolVars, objVars,
                 nCreate, nComplete, nAbort, completeArg, histVars>>
  /\ failedCalls' = [failedCalls EXCEPT ![cur] = IF ~ok THEN @ \cup {"CreateMultipartUpload"} ELSE @]
  /\ UNCHANGED cmdVars

\* setError called by the main goroutine, after its select found ctx live:
\* client.cancel() and the error line; then upload() / copy() returns.
mainSetError ==
  /\ mainPc = "seterr"
  /\ ctxDone' = TRUE
  /\ mainPc' = "next"
  /\ cur' = cur + 1
  /\ UNCHANGED <<mode, jobs, u, walkErr, ret, ctxAbortDone, sigCount,
                 poolVars, objVars, storeVars, histVars>>
  /\ UNCHANGED <<errVars, cmdVars>>

\* uploader.singlePartUpload: acquire, then the goroutine that calls PutObject.
singlePartUpload(got) ==
  /\ mainPc = "single" /\ IsUpload(cur)
  /\ IF got
     THEN /\ acquireSlot
          /\ semaphore' = semaphore + 1
          /\ cwg' = cwg + 1
          /\ req' = [req EXCEPT ![cur][0] = "inflight"]
          /\ sent' = [sent EXCEPT ![cur] = Append(@, [num |-> 0, pos |-> u.pos, len |-> u.n])]
     ELSE /\ acquireCancelled
          /\ UNCHANGED <<semaphore, cwg, req, sent>>
  /\ mainPc' = "next"
  /\ cur' = cur + 1
  /\ UNCHANGED <<mode, jobs, u, walkErr, ret, ctxVars, wg, objVars, storeVars,
                 okParts, badParts, cutShort, barrier>>
  /\ UNCHANGED <<errVars, cmdVars>>

\* The dispatch loop of upload(), one iteration: acquire, start the goroutine
\* of uploadChunk for the chunk at hand, read the next chunk.  When the loop
\* is left the completion goroutine is started and upload() returns.
uploadDispatch(got) ==
  /\ mainPc = "loop" /\ IsUpload(cur)
  /\ IF got
     THEN /\ acquireSlot
          /\ semaphore' = semaphore + 1
          /\ wg' = [wg EXCEPT ![cur] = @ + 1]
          /\ req' = [req EXCEPT ![cur][u.num] = "inflight"]
          /\ sent' = [sent EXCEPT ![cur] = Append(@, [num |-> u.num, pos |-> u.pos, len |-> u.n])]
          /\ UNCHANGED cutShort
          /\ LET u1 == nextReader([u EXCEPT !.num = @ + 1], Job1)
                 more == u.err # "EOF" /\ u1.n # 0
             IN /\ u' = IF u.err = "EOF" THEN u ELSE u1
                /\ failedCalls' = [failedCalls EXCEPT ![cur] =
                       IF u.err # "EOF" /\ u1.err = "read" THEN @ \cup {"Read"} ELSE @]
                /\ IF more
                   THEN /\ cwg' = cwg + 1
                        /\ UNCHANGED <<mainPc, cur, fin>>
                   ELSE /\ cwg' = cwg + 2
                        /\ fin' = [fin EXCEPT ![cur] = "wait"]
                        /\ mainPc' = "next"
                        /\ cur' = cur + 1
     ELSE /\ acquireCancelled
          /\ cutShort' = [cutShort EXCEPT ![cur] = TRUE]
          /\ cwg' = cwg + 1
          /\ fin' = [fin EXCEPT ![cur] = "wait"]
          /\ mainPc' = "next"
          /\ cur' = cur + 1
          /\ UNCHANGED <<semaphore, wg, req, sent, u, failedCalls>>
  /\ UNCHANGED <<mode, jobs, walkErr, ret, ctxVars, parts, closed, storeVars,
                 okParts, badParts, barrier>>
  /\ UNCHANGED cmdVars

\* the end of the top-level operation: after the last object, client.wg.Wait()
\* and the return value (ctx.Err(), or the error of Walk in locals3recursive).
waitAll ==
  /\ \/ mainPc = "next" /\ cur > Len(jobs)
     \/ mainPc = "wait"
  /\ clientWgWait
  /\ mainPc' = "done"
  /\ ret' = IF mode = "locals3recursive"
            THEN (IF walkErr THEN "err" ELSE "nil")
            ELSE (IF ctxDone THEN "err" ELSE "nil")
  /\ UNCHANGED <<mode, jobs, cur, u, walkErr, ctxVars, poolVars, objVars, storeVars, histVars>>
  /\ UNCHANGED <<errVars, cmdVars>>

----------------------------------------------------------------------------
\* The goroutines of the uploader.

\* append(parts, part) between mu.Lock() and mu.Unlock().
appendRacy(s, p) == IF s = <<>> THEN <<p>> ELSE [s EXCEPT ![Len(s)] = p]
appendUnderLock(s, p) == Append(s, p)

\* The store call of a completion goroutine: call is "abort" or "complete"
\* (with the sorted parts); any other value ends the goroutine without a call.
finalise(o, call, sorted) ==
  /\ fin' = [fin EXCEPT ![o] = call]
  /\ barrier' = [barrier EXCEPT ![o] = IF ctxDone THEN "cancelled" ELSE "live"]
  /\ nAbort' = [nAbort EXCEPT ![o] = IF call = "abort" THEN @ + 1 ELSE @]
  /\ nComplete' = [nComplete EXCEPT ![o] = IF call = "complete" THEN @ + 1 ELSE @]
  /\ completeArg' = [completeArg EXCEPT ![o] = IF call = "complete" THEN sorted ELSE @]
  /\ cwg' = IF call \in {"abort", "complete"} THEN cwg ELSE cwg - 1

\* the final steps of a part goroutine: wg.Done() and client.release().
partDone_noRelease(o, p) ==
  /\ req' = [req EXCEPT ![o][p] = "done"]
  /\ wg' = [wg EXCEPT ![o] = @ - 1]
  /\ semaphore' = semaphore
  /\ cwg' = cwg - 1
partDone(o, p) ==
  /\ req' = [req EXCEPT ![o][p] = "done"]
  /\ wg' = [wg EXCEPT ![o] = @ - 1]
  /\ semaphore' = semaphore - 1
  /\ cwg' = cwg - 1

\* the final steps of a single-part goroutine: client.release().
singleDone(o) ==
  /\ req' = [req EXCEPT ![o][0] = "done"]
  /\ semaphore' = semaphore - 1
  /\ cwg' = cwg - 1
  /\ UNCHANGED wg

\* uploader.uploadChunk: UploadPart returns; on success the part is appended
\* to u.parts under u.mu, on error setError is called.
uploadChunk(o, p, ok) ==
  /\ IsUpload(o) /\ p \in PartNums /\ req[o][p] = "inflight"
  /\ MayReturn(ok, ctxDone)
  /\ IF ok
     THEN /\ parts' = [parts EXCEPT ![o] = appendUnderLock(@, p)]
          /\ okParts' = [okParts EXCEPT ![o] = @ \cup {p}]
          /\ partDone(o, p)
          /\ UNCHANGED badParts
     ELSE /\ badParts' = [badParts EXCEPT ![o] = @ \cup {p}]
          /\ UNCHANGED <<parts, okParts>>
          /\ IF setErrorSkips
             THEN partDone(o, p)
             ELSE /\ req' = [req EXCEPT ![o][p] = "seterr"]
                  /\ UNCHANGED <<wg, semaphore, cwg>>
  /\ UNCHANGED <<mainVars, ctxVars, fin, closed, storeVars, sent, cutShort, barrier>>
  /\ UNCHANGED <<errVars, cmdVars>>

\* uploader.setError in a part goroutine whose select found ctx live:
\* client.cancel() and the error line; then the goroutine ends.
uploadChunkSetError(o, p) ==
  /\ IsUpload(o) /\ p \in PartNums /\ req[o][p] = "seterr"
  /\ ctxDone' = TRUE
  /\ partDone(o, p)
  /\ UNCHANGED <<mainVars, ctxAbortDone, sigCount, objVars, storeVars, histVars>>
  /\ UNCHANGED <<errVars, cmdVars>>

\* the goroutine of singlePartUpload: PutObject returns; setError on error;
\* the deferred u.body.Close() and client.release().
singlePartUploadReturn(o, ok) ==
  /\ IsUpload(o) /\ req[o][0] = "inflight"
  /\ MayReturn(ok, ctxDone)
  /\ IF ok
     THEN /\ okParts' = [okParts EXCEPT ![o] = @ \cup {0}]
          /\ closed' = [closed EXCEPT ![o] = TRUE]
          /\ singleDone(o)
          /\ UNCHANGED badParts
     ELSE /\ badParts' = [badParts EXCEPT ![o] = @ \cup {0}]
          /\ UNCHANGED okParts
          /\ IF setErrorSkips
             THEN closed' = [closed EXCEPT ![o] = TRUE] /\ singleDone(o)
             ELSE /\ req' = [req EXCEPT ![o][0] = "seterr"]
                  /\ UNCHANGED <<wg, semaphore, cwg, closed>>
  /\ UNCHANGED <<mainVars, ctxVars, fin, parts, storeVars, sent, cutShort, barrier>>
  /\ UNCHANGED <<errVars, cmdVars>>

singlePartUploadSetError(o) ==
  /\ IsUpload(o) /\ req[o][0] = "seterr"
  /\ ctxDone' = TRUE
  /\ closed' = [closed EXCEPT ![o] = TRUE]
  /\ singleDone(o)
  /\ UNCHANGED <<mainVars, ctxAbortDone, sigCount, fin, parts, storeVars, histVars>>
  /\ UNCHANGED <<errVars, cmdVars>>

\* The choice of the completion goroutine after the barrier:
\* AbortMultipartUpload when client.ctx.Err() is not nil, and otherwise
\* CompleteMultipartUpload.
completionCall_noAbort(cancelled) == IF cancelled THEN "done" ELSE "complete"
completionCall_ignoresCtx(cancelled) == "complete"
completionCall(cancelled) == IF cancelled THEN "abort" ELSE "complete"

\* The completion goroutine of upload(), up to its store call: wg.Wait(),
\* u.body.Close(), then the abort, or the sort and the complete.
uploadComplete(o) ==
  /\ IsUpload(o) /\ fin[o] = "wait"
  /\ wgWait(o)
  /\ closed' = [closed EXCEPT ![o] = TRUE]
  /\ finalise(o, completionCall(ctxDone), completedPartsByPartNumber(parts[o]))
  /\ UNCHANGED <<mainVars, ctxVars, semaphore, wg, req, parts, mpu, nCreate,
                 sent, okParts, badParts, cutShort>>
  /\ UNCHANGED <<errVars, cmdVars>>

\* AbortMultipartUpload returns: an error is only printed.
uploadAbortReturn(o, ok) ==
  /\ IsUpload(o) /\ fin[o] = "abort"
  /\ MayReturn(ok, finalCallCtxDone)
  /\ mpu' = [mpu EXCEPT ![o] = IF ok THEN "aborted" ELSE @]
  /\ fin' = [fin EXCEPT ![o] = "done"]
  /\ cwg' = cwg - 1
  /\ UNCHANGED <<mainVars, ctxVars, semaphore, wg, req, parts, closed,
                 nCreate, nComplete, nAbort, completeArg, histVars>>
  /\ UNCHANGED <<errVars, cmdVars>>

\* CompleteMultipartUpload returns: setError on error, nothing else.
uploadCompleteReturn(o, ok) ==
  /\ IsUpload(o) /\ fin[o] = "complete"
  /\ MayReturn(ok, finalCallCtxDone)
  /\ mpu' = [mpu EXCEPT ![o] = IF ok THEN "completed" ELSE @]
  /\ IF ok \/ setErrorSkips
     THEN fin' = [fin EXCEPT ![o] = "done"] /\ cwg' = cwg - 1
     ELSE fin' = [fin EXCEPT ![o] = "seterr"] /\ UNCHANGED cwg
  /\ UNCHANGED <<mainVars, ctxVars, semaphore, wg, req, parts, closed,
                 nCreate, nComplete, nAbort, completeArg, histVars>>
  /\ failedCalls' = [failedCalls EXCEPT ![o] = IF ~ok THEN @ \cup {"CompleteMultipartUpload"} ELSE @]
  /\ UNCHANGED cmdVars

uploadCompleteSetError(o) ==
  /\ IsUpload(o) /\ fin[o] = "seterr"
  /\ ctxDone' = TRUE
  /\ fin' = [fin EXCEPT ![o] = "done"]
  /\ cwg' = cwg - 1
  /\ UNCHANGED <<mainVars, ctxAbortDone, sigCount, semaphore, wg, req, parts, closed,
                 storeVars, histVars>>
  /\ UNCHANGED <<errVars, cmdVars>>

----------------------------------------------------------------------------
\* The copier.

\* sort.Sort(c.parts) with the type completedParts: ascending by part number.
RECURSIVE completedParts(_)
completedParts(s) ==
  IF s = <<>> THEN <<>>
  ELSE insertPart(completedParts(SubSeq(s, 1, Len(s) - 1)), s[Len(s)])

\* the last byte of the range of the part that starts at pos (copier.copy).
lastByte_unclamped(pos, size) == pos + copyChunkBytes - 1
lastByte(pos, size) ==
  IF pos + copyChunkBytes - 1 >= size THEN size - 1 ELSE pos + copyChunkBytes - 1

\* the test of copier.copy that selects the single CopyObject call.
fitsCopyObject_strict(size) == size < maxCopyObjectBytes
fitsCopyObject(size) == size <= maxCopyObjectBytes

\* copier.copy starts with initSize, which calls HeadObject.
copy ==
  /\ mainPc = "next" /\ cur <= Len(jobs) /\ IsCopy(cur)
  /\ mainPc' = "head"
  /\ u' = NoU
  /\ UNCHANGED <<mode, jobs, cur, walkErr, ret, ctxVars, poolVars, objVars, storeVars, histVars>>
  /\ UNCHANGED <<errVars, cmdVars>>

\* HeadObject returns to copy(): setError on error; CopyObject for a source of
\* at most maxCopyObjectBytes bytes; CreateMultipartUpload for a larger one.
copyHeadReturn(ok) ==
  /\ mainPc = "head" /\ IsCopy(cur)
  /\ MayReturn(ok, ctxDone)
  /\ IF ok
     THEN /\ u' = [u EXCEPT !.totalSize = Job1.size]
          /\ UNCHANGED cur
          /\ IF fitsCopyObject(Job1.size)
             THEN mainPc' = "single" /\ UNCHANGED nCreate
             ELSE /\ mainPc' = "create"
                  /\ nCreate' = [nCreate EXCEPT ![cur] = @ + 1]
     ELSE /\ UNCHANGED <<u, nCreate>>
          /\ IF setErrorSkips
             THEN mainPc' = "next" /\ cur' = cur + 1
             ELSE mainPc' = "seterr" /\ UNCHANGED cur
  /\ UNCHANGED <<mode, jobs, walkErr, ret, ctxVars, poolVars, objVars,
                 mpu, nComplete, nAbort, completeArg, histVars>>
  /\ failedCalls' = [failedCalls EXCEPT ![cur] = IF ~ok THEN @ \cup {"HeadObject"} ELSE @]
  /\ UNCHANGED cmdVars

\* CreateMultipartUpload returns to copy(): on success the loop over the
\* parts starts with i = 1, pos = 0.
copyCreateReturn(ok) ==
  /\ mainPc = "create" /\ IsCopy(cur)
  /\ MayReturn(ok, ctxDone)
  /\ IF ~createErr(ok)
     THEN /\ mpu' = [mpu EXCEPT ![cur] = IF ok THEN "inprogress" ELSE @]
          /\ u' = [u EXCEPT !.num = 1, !.pos = 0]
          /\ IF 0 < u.totalSize
             THEN mainPc' = "loop" /\ UNCHANGED <<cur, fin, cwg>>
             ELSE /\ mainPc' = "next"
                  /\ cur' = cur + 1
                  /\ fin' = [fin EXCEPT ![cur] = "wait"]
                  /\ cwg' = cwg + 1
     ELSE /\ UNCHANGED <<mpu, u, fin, cwg>>
          /\ IF setErrorSkips
             THEN mainPc' = "next" /\ cur' = cur + 1
             ELSE mainPc' = "seterr" /\ UNCHANGED cur
  /\ UNCHANGED <<mode, jobs, walkErr, ret, ctxVars, semaphore, wg, req, parts, closed,
                 nCreate, nComplete, nAbort, completeArg, histVars>>
  /\ failedCalls' = [failedCalls EXCEPT ![cur] = IF ~ok THEN @ \cup {"CreateMultipartUpload"} ELSE @]
  /\ UNCHANGED cmdVars

\* copier.singlePartCopy: acquire, then the goroutine that calls CopyObject.
singlePartCopy(got) ==
  /\ mainPc = "single" /\ IsCopy(cur)
  /\ IF got
     THEN /\ acquireSlot
          /\ semaphore' = semaphore + 1
          /\ cwg' = cwg + 1
          /\ req' = [req EXCEPT ![cur][0] = "inflight"]
          /\ sent' = [sent EXCEPT ![cur] = Append(@, [num |-> 0, pos |-> 0, len |-> u.totalSize])]
     ELSE /\ acquireCancelled
          /\ UNCHANGED <<semaphore, cwg, req, sent>>
  /\ mainPc' = "next"
  /\ cur' = cur + 1
  /\ UNCHANGED <<mode, jobs, u, walkErr, ret, ctxVars, wg, objVars, storeVars,
                 okParts, badParts, cutShort, barrier>>
  /\ UNCHANGED <<errVars, cmdVars>>

\* The loop of copy(), one iteration: the range of part i, acquire, start the
\* goroutine of copyChunk, step to the next part.  When the loop is left the
\* completion goroutine is started and copy() returns.
copyDispatch(got) ==
  /\ mainPc = "loop" /\ IsCopy(cur)
  /\ IF got
     THEN /\ acquireSlot
          /\ semaphore' = semaphore + 1
          /\ wg' = [wg EXCEPT ![cur] = @ + 1]
          /\ req' = [req EXCEPT ![cur][u.num] = "inflight"]
          /\ sent' = [sent EXCEPT ![cur] = Append(@,
                        [num |-> u.num, pos |-> u.pos,
                         len |-> lastByte(u.pos, u.totalSize) - u.pos + 1])]
          /\ u' = [u EXCEPT !.num = @ + 1, !.pos = @ + copyChunkBytes]
          /\ UNCHANGED cutShort
          /\ IF u.pos + copyChunkBytes < u.totalSize
             THEN /\ cwg' = cwg + 1
                  /\ UNCHANGED <<mainPc, cur, fin>>
             ELSE /\ cwg' = cwg + 2
                  /\ fin' = [fin EXCEPT ![cur] = "wait"]
                  /\ mainPc' = "next"
                  /\ cur' = cur + 1
     ELSE /\ acquireCancelled
          /\ cutShort' = [cutShort EXCEPT ![cur] = TRUE]
          /\ cwg' = cwg + 1
          /\ fin' = [fin EXCEPT ![cur] = "wait"]
          /\ mainPc' = "next"
          /\ cur' = cur + 1
          /\ UNCHANGED <<semaphore, wg, req, sent, u>>
  /\ UNCHANGED <<mode, jobs, walkErr, ret, ctxVars, parts, closed, storeVars,
                 okParts, badParts, barrier>>
  /\ UNCHANGED <<errVars, cmdVars>>

\* copier.copyChunk: UploadPartCopy returns; on success the part is appended
\* to c.parts under c.mu, on error setError is called.
copyChunk(o, p, ok) ==
  /\ IsCopy(o) /\ p \in PartNums /\ req[o][p] = "inflight"
  /\ MayReturn(ok, ctxDone)
  /\ IF ok
     THEN /\ parts' = [parts EXCEPT ![o] = appendUnderLock(@, p)]
          /\ okParts' = [okParts EXCEPT ![o] = @ \cup {p}]
          /\ partDone(o, p)
          /\ UNCHANGED badParts
     ELSE /\ badParts' = [badParts EXCEPT ![o] = @ \cup {p}]
          /\ UNCHANGED <<parts, okParts>>
          /\ IF setErrorSkips
             THEN partDone(o, p)
             ELSE /\ req' = [req EXCEPT ![o][p] = "seterr"]
                  /\ UNCHANGED <<wg, semaphore, cwg>>
  /\ UNCHANGED <<mainVars, ctxVars, fin, closed, storeVars, sent, cutShort, barrier>>
  /\ UNCHANGED <<errVars, cmdVars>>

copyChunkSetError(o, p) ==
  /\ IsCopy(o) /\ p \in PartNums /\ req[o][p] = "seterr"
  /\ ctxDone' = TRUE
  /\ partDone(o, p)
  /\ UNCHANGED <<mainVars, ctxAbortDone, sigCount, objVars, storeVars, histVars>>
  /\ UNCHANGED <<errVars, cmdVars>>

\* the goroutine of singlePartCopy: CopyObject returns; setError on error.
singlePartCopyReturn(o, ok) ==
  /\ IsCopy(o) /\ req[o][0] = "inflight"
  /\ MayReturn(ok, ctxDone)
  /\ IF ok
     THEN /\ okParts' = [okParts EXCEPT ![o] = @ \cup {0}]
          /\ singleDone(o)
          /\ UNCHANGED badParts
     ELSE /\ badParts' = [badParts EXCEPT ![o] = @ \cup {0}]
          /\ UNCHANGED okParts
          /\ IF setErrorSkips
             THEN singleDone(o)
             ELSE /\ req' = [req EXCEPT ![o][0] = "seterr"]
                  /\ UNCHANGED <<wg, semaphore, cwg>>
  /\ UNCHANGED <<mainVars, ctxVars, objVars, storeVars, sent, cutShort, barrier>>
  /\ UNCHANGED <<errVars, cmdVars>>

singlePartCopySetError(o) ==
  /\ IsCopy(o) /\ req[o][0] = "seterr"
  /\ ctxDone' = TRUE
  /\ singleDone(o)
  /\ UNCHANGED <<mainVars, ctxAbortDone, sigCount, objVars, storeVars, histVars>>
  /\ UNCHANGED <<errVars, cmdVars>>

\* The completion goroutine of copy(), up to its store call: wg.Wait(), then
\* AbortMultipartUpload when client.ctx is done, and otherwise the sort and
\* CompleteMultipartUpload.
copyComplete(o) ==
  /\ IsCopy(o) /\ fin[o] = "wait"
  /\ wgWait(o)
  /\ finalise(o, completionCall(ctxDone), completedParts(parts[o]))
  /\ UNCHANGED <<mainVars, ctxVars, semaphore, wg, req, parts, closed, mpu, nCreate,
                 sent, okParts, badParts, cutShort>>
  /\ UNCHANGED <<errVars, cmdVars>>

copyAbortReturn(o, ok) ==
  /\ IsCopy(o) /\ fin[o] = "abort"
  /\ MayReturn(ok, finalCallCtxDone)
  /\ mpu' = [mpu EXCEPT ![o] = IF ok THEN "aborted" ELSE @]
  /\ fin' = [fin EXCEPT ![o] = "done"]
  /\ cwg' = cwg - 1
  /\ UNCHANGED <<mainVars, ctxVars, semaphore, wg, req, parts, closed,
                 nCreate, nComplete, nAbort, completeArg, histVars>>
  /\ UNCHANGED <<errVars, cmdVars>>

copyCompleteReturn(o, ok) ==
  /\ IsCopy(o) /\ fin[o] = "complete"
  /\ MayReturn(ok, finalCallCtxDone)
  /\ mpu' = [mpu EXCEPT ![o] = IF ok THEN "completed" ELSE @]
  /\ IF ok \/ setErrorSkips
     THEN fin' = [fin EXCEPT ![o] = "done"] /\ cwg' = cwg - 1
     ELSE fin' = [fin EXCEPT ![o] = "seterr"] /\ UNCHANGED cwg
  /\ UNCHANGED <<mainVars, ctxVars, semaphore, wg, req, parts, closed,
                 nCreate, nComplete, nAbort, completeArg, histVars>>
  /\ failedCalls' = [failedCalls EXCEPT ![o] = IF ~ok THEN @ \cup {"CompleteMultipartUpload"} ELSE @]
  /\ UNCHANGED cmdVars

copyCompleteSetError(o) ==
  /\ IsCopy(o) /\ fin[o] = "seterr"
  /\ ctxDone' = TRUE
  /\ fin' = [fin EXCEPT ![o] = "done"]
  /\ cwg' = cwg - 1
  /\ UNCHANGED <<mainVars, ctxAbortDone, sigCount, semaphore, wg, req, parts, closed,
                 storeVars, histVars>>
  /\ UNCHANGED <<errVars, cmdVars>>

----------------------------------------------------------------------------
\* The steps of the goroutines: everything but the arrival of a signal.
Progress ==
  \/ walkCancelled
  \/ upload
  \/ \E ok \in BOOLEAN : uploadCreateReturn(ok)
  \/ mainSetError
  \/ \E got \in BOOLEAN : singlePartUpload(got)
  \/ \E got \in BOOLEAN : uploadDispatch(got)
  \/ waitAll
  \/ \E o \in Objs, p \in PartNums, ok \in BOOLEAN : uploadChunk(o, p, ok)
  \/ \E o \in Objs, p \in PartNums : uploadChunkSetError(o, p)
  \/ \E o \in Objs, ok \in BOOLEAN : singlePartUploadReturn(o, ok)
  \/ \E o \in Objs : singlePartUploadSetError(o)
  \/ \E o \in Objs : uploadComplete(o)
  \/ \E o \in Objs, ok \in BOOLEAN : uploadAbortReturn(o, ok)
  \/ \E o \in Objs, ok \in BOOLEAN : uploadCompleteReturn(o, ok)
  \/ \E o \in Objs : uploadCompleteSetError(o)
  \/ copy
  \/ \E ok \in BOOLEAN : copyHeadReturn(ok)
  \/ \E ok \in BOOLEAN : copyCreateReturn(ok)
  \/ \E got \in BOOLEAN : singlePartCopy(got)
  \/ \E got \in BOOLEAN : copyDispatch(got)
  \/ \E o \in Objs, p \in PartNums, ok \in BOOLEAN : copyChunk(o, p, ok)
  \/ \E o \in Objs, p \in PartNums : copyChunkSetError(o, p)
  \/ \E o \in Objs, ok \in BOOLEAN : singlePartCopyReturn(o, ok)
  \/ \E o \in Objs : singlePartCopySetError(o)
  \/ \E o \in Objs : copyComplete(o)
  \/ \E o \in Objs, ok \in BOOLEAN : copyAbortReturn(o, ok)
  \/ \E o \in Objs, ok \in BOOLEAN : copyCompleteReturn(o, ok)
  \/ \E o \in Objs : copyCompleteSetError(o)

Next == handleSignal \/ Progress

Spec == Init /\ [][Next]_vars

\* Every goroutine that can take a step eventually takes one and every store
\* request returns; signals need not arrive.
FairSpec == Spec /\ WF_vars(Progress)

----------------------------------------------------------------------------
\* Properties.

Created(o) == mpu[o] # "none"
FinalCalls(o) == nComplete[o] + nAbort[o]
Quiescent == mainPc = "done"
InFlight == {op \in Objs \X (0..MaxParts) : req[op[1]][op[2]] = "inflight"}
PartRequests(o) == {i \in 1..Len(sent[o]) : sent[o][i].num >= 1}
PutRequests(o) == {i \in 1..Len(sent[o]) : sent[o][i].num = 0}
Handled(o) == o \in DOMAIN jobs /\ (cur > o \/ mainPc \in {"wait", "done"})
Range(s) == {s[i] : i \in 1..Len(s)}
IsPrefix(a, b) == Len(a) <= Len(b) /\ \A i \in 1..Len(a) : a[i] = b[i]
CeilDiv(a, b) == (a + b - 1) \div b

\* An upper bound on the steps the goroutines of the run can still take:
\* those of the main goroutine (per object not yet handed over, and within
\* the object at hand) plus those of every part and completion goroutine.
MainStepsPerObject == 10 + 3 * MaxParts
MainStepsLeft ==
  CASE mainPc = "done" -> 0
    [] mainPc = "wait" -> 1
    [] mainPc = "next" -> 2 + (Len(jobs) + 1 - cur) * MainStepsPerObject
    [] OTHER ->
         2 + (Len(jobs) - cur) * MainStepsPerObject
           + (CASE mainPc = "head" -> 8 + 3 * MaxParts
                [] mainPc = "create" -> 7 + 3 * MaxParts
                [] mainPc = "loop" -> 6 + 3 * (MaxParts + 1 - u.num)
                [] mainPc = "single" -> 3
                [] OTHER -> 1)
GoroutineStepsLeft ==
  2 * Cardinality(InFlight)
  + Cardinality({op \in Objs \X (0..MaxParts) : req[op[1]][op[2]] = "seterr"})
  + 3 * Cardinality({o \in Objs : fin[o] = "wait"})
  + 2 * Cardinality({o \in Objs : fin[o] \in {"abort", "complete"}})
  + Cardinality({o \in Objs : fin[o] = "seterr"})
StepsLeft == MainStepsLeft + GoroutineStepsLeft

\* C1: every CreateMultipartUpload that returned success is eventually
\* followed by exactly one call that is CompleteMultipartUpload or
\* AbortMultipartUpload for that upload, never both and never neither, and no
\* such call is made for an upload that was not created.  "At most one, and
\* only for a created upload" is the first conjunct.  "Eventually one" is the
\* other two: every step of a goroutine lowers StepsLeft and a signal leaves
\* it alone, so the goroutines stop after finitely many steps, whatever the
\* signals and the store do; and in a state where no goroutine can take a
\* step, every created upload has had its call.
C1_ExactlyOneFinalCall ==
  /\ [](\A o \in Objs : FinalCalls(o) <= 1 /\ (FinalCalls(o) = 1 => Created(o)))
  /\ [](StepsLeft >= 0)
  /\ [][IF handleSignal THEN StepsLeft' = StepsLeft ELSE StepsLeft' < StepsLeft]_vars
  /\ []((~ENABLED Progress) => \A o \in Objs : Created(o) => FinalCalls(o) = 1)

\* the same claim as a leads-to, under weak fairness of the goroutines' steps.
C1_LeadsTo == \A o \in Objs : Created(o) ~> (FinalCalls(o) = 1)

\* a part of a created upload failed and the upload got its one final call,
\* an abort, and no complete.
C1_Witness ==
  \E o \in Objs :
    /\ Created(o) /\ badParts[o] # {} /\ nAbort[o] = 1 /\ nComplete[o] = 0
    /\ fin[o] = "done"

\* C2 (as claimed): at quiescence no multipart upload of the run is left in
\* progress: each created upload was completed, or its abort was called (an
\* abort that the store itself refused is not held against the program).
C2_NoUploadLeftInProgress ==
  Quiescent => \A o \in Objs : Created(o) => mpu[o] = "completed" \/ nAbort[o] = 1

\* C3: the number of part-level requests in flight (UploadPart,
\* UploadPartCopy, PutObject, CopyObject), over all objects, is at most parallel.
C3_InFlightAtMostParallel == Cardinality(InFlight) <= parallel

\* the pool is full with requests of two objects while the main goroutine
\* waits in acquire for a further part.
C3_Witness ==
  /\ Cardinality(InFlight) = parallel
  /\ mainPc = "loop"
  /\ \E a, b \in InFlight : a[1] # b[1]

\* C4 (as claimed): an upload calls CreateMultipartUpload only for a payload
\* longer than one chunk and PutObject only for a payload of at most one
\* chunk, whether the size of the source is known or not.
C4_SinglePartIffFitsOneChunk ==
  \A o \in Objs : IsUpload(o) =>
    /\ nCreate[o] > 0 => jobs[o].size > copyChunkBytes
    /\ PutRequests(o) # {} => jobs[o].size <= copyChunkBytes

\* the parts a source of S bytes is cut into: part i is [(i-1)*chunk, min(i*chunk, S)).
ExpectedParts(S) ==
  [i \in 1..CeilDiv(S, copyChunkBytes) |->
     [num |-> i, pos |-> (i - 1) * copyChunkBytes,
      len |-> Min(i * copyChunkBytes, S) - (i - 1) * copyChunkBytes]]

\* C5: a regular file of S > chunk bytes is dispatched as the parts 1..N,
\* N = ceil(S / chunk), part i carrying [(i-1)*chunk, min(i*chunk, S)): the
\* requests issued so far are a prefix of that list, and the whole list once
\* the dispatch loop has ended without cancellation.  A file of at most one
\* chunk is never multipart and its only request is a PutObject of S bytes.
C5_FilePartsAreTheChunks ==
  \A o \in Objs : (o \in DOMAIN jobs /\ jobs[o].kind = "file") =>
    LET S == jobs[o].size IN
    IF S > copyChunkBytes
    THEN /\ IsPrefix(sent[o], ExpectedParts(S))
         /\ (fin[o] # "none" /\ ~cutShort[o]) => sent[o] = ExpectedParts(S)
    ELSE /\ nCreate[o] = 0
         /\ sent[o] \in {<<>>, <<[num |-> 0, pos |-> 0, len |-> S]>>}

\* a file of chunk + 1 bytes was dispatched as two parts of chunk and 1 bytes.
C5_Witness ==
  \E o \in Objs :
    /\ IsUpload(o) /\ jobs[o].kind = "file" /\ jobs[o].size = copyChunkBytes + 1
    /\ fin[o] # "none" /\ ~cutShort[o]
    /\ Len(sent[o]) = 2 /\ sent[o][1].len = copyChunkBytes /\ sent[o][2].len = 1

\* C6 (as claimed): an empty source, file or stream, is uploaded with one
\* PutObject of an empty body, without CreateMultipartUpload or UploadPart.
C6_EmptySourceIsOnePut ==
  \A o \in Objs : (IsUpload(o) /\ jobs[o].size = 0) =>
    /\ nCreate[o] = 0
    /\ PartRequests(o) = {}
    /\ (Handled(o) /\ ~ctxDone) => sent[o] = <<[num |-> 0, pos |-> 0, len |-> 0]>>

\* C7 (as claimed): no UploadPart or UploadPartCopy request carries zero bytes.
C7_NoEmptyPart ==
  \A o \in Objs : \A i \in PartRequests(o) : sent[o][i].len > 0

\* C8: the parts of a CompleteMultipartUpload call are the part numbers 1..N
\* with no gap and no duplicate, N being the number of parts dispatched for
\* the object, and each is a part whose request succeeded.
C8_CompletePartsAreOneToN ==
  \A o \in Objs : nComplete[o] > 0 =>
    LET N == Cardinality(PartRequests(o)) IN
    /\ Len(completeArg[o]) = N
    /\ Range(completeArg[o]) = 1..N
    /\ Range(completeArg[o]) \subseteq okParts[o]

\* a multipart upload of at least two parts was completed.
C8_Witness ==
  \E o \in Objs : nComplete[o] = 1 /\ Len(completeArg[o]) >= 2 /\ mpu[o] = "completed"

\* C9: the parts of a CompleteMultipartUpload call are strictly ascending by
\* part number, in whatever order the part goroutines appended them.
C9_CompletePartsAscending ==
  \A o \in Objs : nComplete[o] > 0 =>
    \A i, j \in 1..Len(completeArg[o]) : i < j => completeArg[o][i] < completeArg[o][j]

\* part 2 was appended before part 1 and the call carries 1, 2.
C9_Witness ==
  \E o \in Objs :
    /\ nComplete[o] = 1
    /\ Len(parts[o]) >= 2 /\ parts[o][1] > parts[o][2]

\* C10: CompleteMultipartUpload is called only when every dispatched part
\* succeeded, the dispatch loop ran to its end and the working context was
\* live at the barrier; when a part failed, the loop was cut short or the
\* context was cancelled at the barrier, AbortMultipartUpload is called instead.
C10_CompleteOnlyIfAllPartsOk ==
  \A o \in Objs :
    /\ nComplete[o] > 0 =>
         /\ badParts[o] = {} /\ ~cutShort[o] /\ barrier[o] = "live"
         /\ \A i \in PartRequests(o) : sent[o][i].num \in okParts[o]
         /\ nAbort[o] = 0
    /\ (fin[o] \notin {"none", "wait"}
        /\ (badParts[o] # {} \/ cutShort[o] \/ barrier[o] = "cancelled")) =>
         nAbort[o] = 1 /\ nComplete[o] = 0

\* every part of an upload succeeded, yet it was aborted because the context
\* had been cancelled, with no signal, by the failure of another object.
C10_Witness ==
  \E o \in Objs :
    /\ nAbort[o] = 1 /\ badParts[o] = {} /\ ~cutShort[o]
    /\ Len(sent[o]) >= 2 /\ Range(parts[o]) = {sent[o][i].num : i \in 1..Len(sent[o])}
    /\ sigCount = 0

----------------------------------------------------------------------------
\* Cancellation, errors and the end of the run.

\* a store call of the run returned an error (a part-level request, HeadObject,
\* CreateMultipartUpload or CompleteMultipartUpload).
StoreError == \E o \in Objs : badParts[o] # {} \/ failedCalls[o] \ {"Read"} # {}
\* no call of the run returned an error, read of the source included.
NoError == \A o \in Objs : badParts[o] = {} /\ failedCalls[o] = {}
\* the second step of setError (client.cancel() and the error line), taken by
\* whichever goroutine is past the select of setError.
setErrorReports ==
  \/ mainSetError
  \/ \E o \in Objs, p \in PartNums : uploadChunkSetError(o, p) \/ copyChunkSetError(o, p)
  \/ \E o \in Objs : singlePartUploadSetError(o) \/ singlePartCopySetError(o)
  \/ \E o \in Objs : uploadCompleteSetError(o) \/ copyCompleteSetError(o)

\* C11: once the goroutine of a failed part has ended, the working context is
\* cancelled; and when AbortMultipartUpload or CompleteMultipartUpload has been
\* issued for an upload, every part request dispatched for it has returned
\* (with success or with an error) and its goroutine has ended: none is in
\* flight.
C11_FinalCallAfterAllPartsReturned ==
  /\ \A o \in Objs : \A p \in badParts[o] : req[o][p] = "done" => ctxDone
  /\ \A o \in Objs : FinalCalls(o) > 0 =>
       \A i \in PartRequests(o) :
         /\ req[o][sent[o][i].num] = "done"
         /\ sent[o][i].num \in okParts[o] \cup badParts[o]

\* with no signal, one part of an upload failed, a sibling part succeeded, and
\* the abort was issued after both had returned.
C11_Witness ==
  \E o \in Objs :
    /\ nAbort[o] = 1 /\ sigCount = 0
    /\ badParts[o] # {} /\ okParts[o] # {}
    /\ Cardinality(PartRequests(o)) >= 2

\* C12: the cleanup context is cancelled by nothing but a second signal, and
\* AbortMultipartUpload and CompleteMultipartUpload are issued on it: in the
\* step that issues one of them, its context is live unless two signals have
\* been handled, however the working context was cancelled.
C12_FinalCallOnCleanupContext ==
  /\ [](ctxAbortDone => sigCount = 2)
  /\ [][\A o \in Objs :
          (nAbort'[o] + nComplete'[o] > nAbort[o] + nComplete[o]) =>
            (finalCallCtxDone => sigCount = 2)]_vars

\* one signal cancelled the working context and the abort of a created upload
\* went through on the live cleanup context.
C12_Witness ==
  \E o \in Objs : mpu[o] = "aborted" /\ sigCount = 1 /\ ctxDone /\ ~ctxAbortDone

C14_NoDispatchAfterCancel ==
  [][ctxDone => \A o \in Objs : sent'[o] = sent[o]]_vars

\* C15 (as claimed): when a store call of the run returned an error, the
\* working context is cancelled and the top-level operation returns an error
\* (the status is non-zero), in every mode.  Runs in which a signal was
\* handled are left out: there a store call may fail because of the
\* cancellation alone.
C15_JobErrorGivesNonZeroStatus ==
  (Quiescent /\ StoreError /\ sigCount = 0) => (ctxDone /\ ret = "err")

\* C16 (as claimed): when no call of the run returned an error, so that only
\* a signal can have cancelled the working context, the top-level operation
\* returns nil (the status is zero).
C16_CancelIsNotAnError ==
  (Quiescent /\ NoError) => ret = "nil"

\* C17 (as claimed): once a read of the source of an upload has returned an
\* error, no CompleteMultipartUpload is issued for the object, and when
\* upload() has returned the working context is cancelled.
C17_ReadFailureIsAJobError ==
  \A o \in Objs : "Read" \in failedCalls[o] =>
    /\ nComplete[o] = 0
    /\ Handled(o) => ctxDone

\* C18 (as claimed): the error is reported at most once per run.  With no
\* signal handled, the working context is cancelled only by a goroutine that
\* reports its error, so a goroutine that reports when the working context is
\* already cancelled is a second report.
C18_ErrorReportedAtMostOnce ==
  [][(setErrorReports /\ sigCount = 0) => ~ctxDone]_vars

\* C19: when the top-level operation has returned, no part-level request is
\* in flight, no goroutine is inside setError, no semaphore slot is held and
\* every completion goroutine has ended, its store call returned.
C19_ReturnOnlyAfterQuiescence ==
  Quiescent =>
    /\ \A o \in Objs : \A p \in 0..MaxParts : req[o][p] \in {"none", "done"}
    /\ semaphore = 0
    /\ cwg = 0
    /\ \A o \in Objs : fin[o] \in {"none", "done"} /\ (Created(o) => fin[o] = "done")

\* the operation returned after a cancellation, with an upload aborted after
\* one of its parts had failed.
C19_Witness ==
  /\ Quiescent /\ ctxDone
  /\ \E o \in Objs : mpu[o] = "aborted" /\ badParts[o] # {} /\ fin[o] = "done"

\* C20: AbortMultipartUpload is only called for an object whose
\* CreateMultipartUpload was called and returned success: never after a
\* failed CreateMultipartUpload and never for an object sent with PutObject
\* or CopyObject.
C20_AbortOnlyForCreatedUpload ==
  \A o \in Objs : nAbort[o] > 0 =>
    /\ Created(o) /\ nCreate[o] = 1
    /\ "CreateMultipartUpload" \notin failedCalls[o]
    /\ PutRequests(o) = {}

\* the CreateMultipartUpload of one object failed, which cancelled the run:
\* another object's upload was aborted, the failed one's was not.
C20_Witness ==
  /\ Quiescent
  /\ \E a, b \in Objs :
       /\ "CreateMultipartUpload" \in failedCalls[a] /\ nAbort[a] = 0 /\ ~Created(a)
       /\ nAbort[b] = 1 /\ sigCount = 0


----------------------------------------------------------------------------
\* The command: Run and client.Run of cp.go and the handlers of the six
\* modes, one step per job.  A job is the transfer of one object; how the
\* engine carries out an upload or a copy is the subject of Spec, here a job
\* is started in one step and ends in another with a result the store
\* chooses.  No signal arrives in these runs.

engineRest == <<jobs, mainPc, cur, u, walkErr, ctxAbortDone, sigCount, poolVars,
                objVars, storeVars, histVars, errVars, dlVars>>
engineVars == <<engineRest, bucket>>

\* the engine before any object is handed to it
EngineIdle ==
  /\ jobs = <<>>
  /\ mainPc = "idle"
  /\ cur = 1
  /\ u = NoU
  /\ walkErr = FALSE
  /\ ctxAbortDone = FALSE
  /\ sigCount = 0
  /\ semaphore = 0
  /\ cwg = 0
  /\ wg = [o \in Objs |-> 0]
  /\ req = [o \in Objs |-> [p \in 0..MaxParts |-> "none"]]
  /\ fin = [o \in Objs |-> "none"]
  /\ parts = [o \in Objs |-> <<>>]
  /\ closed = [o \in Objs |-> FALSE]
  /\ mpu = [o \in Objs |-> "none"]
  /\ nCreate = [o \in Objs |-> 0]
  /\ nComplete = [o \in Objs |-> 0]
  /\ nAbort = [o \in Objs |-> 0]
  /\ completeArg = [o \in Objs |-> <<>>]
  /\ sent = [o \in Objs |-> <<>>]
  /\ okParts = [o \in Objs |-> {}]
  /\ badParts = [o \in Objs |-> {}]
  /\ cutShort = [o \in Objs |-> FALSE]
  /\ barrier = [o \in Objs |-> "none"]
  /\ failedCalls = [o \in Objs |-> {}]

CmdInit ==
  /\ args \in ArgLists
  /\ cli \in CommandLines
  /\ Len(args) # 2 => cli = [dryrun |-> FALSE, recursive |-> FALSE, noFollowSymlinks |-> FALSE,
                             acl |-> "", expires |-> "", opts |-> <<>>]
  /\ Len(args) = 2 => \A i \in 1..2 : args[i] \in (IF cli.recursive THEN DirPaths ELSE ArgPaths)
  /\ pkg = flagDefaults
  /\ c = [acl |-> "", expires |-> "", followSymlinks |-> FALSE]
  /\ runPc = "parse"
  /\ exitStatus = -1
  /\ stderr = <<>>
  /\ calls = <<>>
  /\ signalHandler = FALSE
  /\ fsOps = <<>>
  /\ todo = <<>>
  /\ jobsRun = <<>>
  /\ chResult = <<>>
  /\ bucket = <<>>
  /\ mode = "none"
  /\ ret = "none"
  /\ ctxDone = FALSE
  /\ EngineIdle
  /\ DlIdle

\* a line on the error stream: the job it reports (0: the command) and what
\* it is.
Line(job, kind) == [job |-> job, kind |-> kind]
\* os.Exit(status), or the return of Run to the caller, which ends the process
\* with status 0.
exit(status) == exitStatus' = status /\ runPc' = "exit"

\* cobra parses the command line: every flag given is assigned to the
\* package variable that Init bound it to.
parseFlags ==
  /\ runPc = "parse"
  /\ pkg' = setOpts([flagDefaults EXCEPT !.dryrun = cli.dryrun,
                                         !.recursive = cli.recursive,
                                         !.noFollowSymlinks = cli.noFollowSymlinks,
                                         !.acl = cli.acl,
                                         !.expires = cli.expires], cli.opts)
  /\ runPc' = "Run"
  /\ UNCHANGED <<args, cli, c, exitStatus, stderr, calls, signalHandler, fsOps, todo,
                 jobsRun, chResult, mode, ret, ctxDone, engineVars>>

\* Run: the number of arguments, --acl, --expires, then the signal handler.
\* With a number of arguments other than two it prints the usage and returns;
\* it exits with status 1 only if printing the usage fails.
Run(usageOk) ==
  /\ runPc = "Run"
  /\ IF Len(args) # 2
     THEN /\ IF usageOk
             THEN stderr' = Append(stderr, Line(0, "usage")) /\ exit(0)
             ELSE stderr' = Append(stderr, Line(0, "usage error")) /\ exit(1)
          /\ UNCHANGED <<c, signalHandler>>
     ELSE IF parseACL(pkg.acl).err
     THEN /\ stderr' = Append(stderr, Line(0, "validation error"))
          /\ exit(1)
          /\ UNCHANGED <<c, signalHandler>>
     ELSE IF pkg.expires # "" /\ parseRFC3339(pkg.expires).err
     THEN /\ stderr' = Append(stderr, Line(0, "validation error"))
          /\ exit(1)
          /\ UNCHANGED <<c, signalHandler>>
     ELSE /\ c' = [acl |-> parseACL(pkg.acl).acl,
                   expires |-> IF pkg.expires # "" THEN parseRFC3339(pkg.expires).t ELSE "",
                   followSymlinks |-> pkg.followSymlinks /\ ~pkg.noFollowSymlinks]
          /\ signalHandler' = TRUE
          /\ runPc' = "clientRun"
          /\ UNCHANGED <<stderr, exitStatus>>
  /\ UNCHANGED <<args, cli, pkg, calls, fsOps, todo, jobsRun, chResult, mode, ret,
                 ctxDone, engineVars>>

\* the arguments as client.Run hands them to the handlers
s3src == HasPrefix(args[1], s3scheme)
s3dist == HasPrefix(args[2], s3scheme)
src == TrimPrefix(args[1], s3scheme)
dist == TrimPrefix(args[2], s3scheme)

\* client.Run: the direction of the transfer, the client of the bucket
\* (config.NewS3BucketClient loads the configuration and sends no request),
\* and the choice of the handler.
clientRun(clientOk) ==
  /\ runPc = "clientRun"
  /\ IF ~s3src /\ ~s3dist
     THEN /\ stderr' = Append(stderr, Line(0, "invalid argument type"))
          /\ exit(1)
          /\ UNCHANGED mode
     ELSE IF ~clientOk
     THEN /\ stderr' = Append(stderr, Line(0, "config error"))
          /\ exit(1)
          /\ UNCHANGED mode
     ELSE /\ mode' = CASE s3src /\ s3dist -> IF pkg.recursive THEN "s3s3recursive" ELSE "s3s3"
                       [] ~s3src /\ s3dist -> IF pkg.recursive THEN "locals3recursive" ELSE "locals3"
                       [] s3src /\ ~s3dist -> IF pkg.recursive THEN "s3localrecursive" ELSE "s3local"
          /\ runPc' = "handler"
          /\ UNCHANGED <<stderr, exitStatus>>
  /\ UNCHANGED <<args, cli, pkg, c, calls, signalHandler, fsOps, todo, jobsRun, chResult,
                 ret, ctxDone, engineVars>>


\* the test `if dryrun` of the handlers
isDryrun_never == FALSE
isDryrun == pkg.dryrun

\* a job: what is transferred (the standard input, a file, a directory
\* opened as if it were a file, a remote object to copy or to download), the
\* path or key of the source, the key of the destination (the path, for a
\* download), and its state: "dryrun" (only printed), "running", "ok" or
\* "failed".
NewJob(what, from, key, state) == [what |-> what, from |-> from, key |-> key, state |-> state]
NextJob == Len(jobsRun) + 1
Running == {j \in DOMAIN jobsRun : jobsRun[j].state = "running"}

\* the input of PutObject and of CreateMultipartUpload (upload.go), as far as
\* the key and the two options go
putInput(key) ==
  [Key |-> key,
   CacheControl |-> nullableString(pkg.cacheControl),
   ContentDisposition |-> nullableString(pkg.contentDisposition)]
Call(op, job, in) == [op |-> op, job |-> job, in |-> in]

\* path.Join of two elements without "." and ".." segments: empty elements are
\* ignored, the rest is joined with '/', repeated slashes are reduced to one
\* and a trailing slash is dropped.
RECURSIVE squeeze(_)
squeeze(s) ==
  IF Len(s) <= 1 THEN s
  ELSE IF s[1] = "/" /\ s[2] = "/" THEN squeeze(Tail(s))
  ELSE <<s[1]>> \o squeeze(Tail(s))
Clean(s) ==
  LET t == squeeze(s)
  IN IF Len(t) > 1 /\ t[Len(t)] = "/" THEN SubSeq(t, 1, Len(t) - 1) ELSE t
Join(a, b) ==
  IF a = <<>> /\ b = <<>> THEN <<>>
  ELSE IF a = <<>> THEN Clean(b)
  ELSE IF b = <<>> THEN Clean(a)
  ELSE Clean(a \o <<"/">> \o b)

\* client.locals3, and client.stdins3 for the source "-": the key, the dry
\* run, os.Open, the progress line, and the start of the upload.
locals3(openOk) ==
  /\ runPc = "handler" /\ mode = "locals3"
  /\ LET key == destKey(parsePath(dist).key, src)
         what == IF src = srcStdin THEN "stdin" ELSE "file"
     IN IF isDryrun
        THEN /\ stderr' = Append(stderr, Line(NextJob, "progress"))
             /\ jobsRun' = Append(jobsRun, NewJob(what, src, key, "dryrun"))
             /\ ret' = "nil"
             /\ runPc' = "return"
             /\ UNCHANGED fsOps
        ELSE IF src = srcStdin
        THEN /\ jobsRun' = Append(jobsRun, NewJob(what, src, key, "running"))
             /\ runPc' = "wait"
             /\ UNCHANGED <<stderr, ret, fsOps>>
        ELSE /\ fsOps' = Append(fsOps, [op |-> "open", kind |-> "file", rel |-> src, ok |-> openOk])
             /\ IF openOk
                THEN /\ stderr' = Append(stderr, Line(NextJob, "progress"))
                     /\ jobsRun' = Append(jobsRun, NewJob(what, src, key, "running"))
                     /\ runPc' = "wait"
                     /\ UNCHANGED ret
                ELSE /\ ret' = "err"
                     /\ runPc' = "return"
                     /\ UNCHANGED <<stderr, jobsRun>>
  /\ UNCHANGED <<args, cli, pkg, c, exitStatus, calls, signalHandler, todo, chResult,
                 mode, ctxDone, engineVars>>

\* client.s3s3: the key, the progress line, the dry run, the start of the copy.
s3s3 ==
  /\ runPc = "handler" /\ mode = "s3s3"
  /\ LET srcKey == parsePath(src).key
         distKey == destKey(parsePath(dist).key, srcKey)
     IN /\ stderr' = Append(stderr, Line(NextJob, "progress"))
        /\ IF isDryrun
           THEN /\ jobsRun' = Append(jobsRun, NewJob("object", srcKey, distKey, "dryrun"))
                /\ ret' = "nil"
                /\ runPc' = "return"
           ELSE /\ jobsRun' = Append(jobsRun, NewJob("object", srcKey, distKey, "running"))
                /\ runPc' = "wait"
                /\ UNCHANGED ret
  /\ UNCHANGED <<args, cli, pkg, c, exitStatus, calls, signalHandler, fsOps, todo, chResult,
                 mode, ctxDone, engineVars>>

\* The end of an upload or a copy that was started.  An upload sends
\* PutObject or CreateMultipartUpload with the options of the command line, a
\* copy HeadObject and then CopyObject or CreateMultipartUpload; a job that
\* fails may have sent nothing (op = "none": the read of the source failed or
\* the working context was cancelled) and reading a directory always fails.
\* A job that fails calls setError: unless the working context is cancelled
\* already, it cancels it and prints the error.
jobResult(j, ok, op) ==
  /\ runPc \in {"handler", "loop", "wait"}
  /\ j \in Running
  /\ ok => ~ctxDone
  /\ LET job == jobsRun[j]
     IN /\ CASE job.what \in {"file", "stdin"} ->
                  /\ op \in {"PutObject", "CreateMultipartUpload", "none"}
                  /\ ok => op # "none"
                  /\ calls' = IF op = "none" THEN calls
                              ELSE Append(calls, Call(op, j, putInput(job.key)))
             [] job.what = "directory" ->
                  /\ op = "none" /\ ~ok
                  /\ UNCHANGED calls
             [] job.what = "object" ->
                  /\ op \in {"CopyObject", "CreateMultipartUpload", "none"}
                  /\ ok => op # "none"
                  /\ calls' = IF op = "none"
                              THEN Append(calls, Call("HeadObject", j, [Key |-> job.from]))
                              ELSE calls \o <<Call("HeadObject", j, [Key |-> job.from]),
                                              Call(op, j, [Key |-> job.key])>>
        /\ jobsRun' = [jobsRun EXCEPT ![j].state = IF ok THEN "ok" ELSE "failed"]
  /\ IF ~ok /\ ~setErrorSkips
     THEN ctxDone' = TRUE /\ stderr' = Append(stderr, Line(j, "error"))
     ELSE UNCHANGED <<ctxDone, stderr>>
  /\ UNCHANGED <<args, cli, pkg, c, runPc, exitStatus, signalHandler, fsOps, todo,
                 chResult, mode, ret, engineVars>>

\* the end of a handler that started uploads or copies: client.wg.Wait(),
\* then the error of the walk (locals3recursive), of the listing
\* (s3s3recursive) or c.ctx.Err().
handlerReturn ==
  /\ runPc = "wait"
  /\ Running = {}
  /\ ret' = IF mode = "locals3recursive" THEN ret
            ELSE IF ret = "err" \/ ctxDone THEN "err" ELSE "nil"
  /\ runPc' = "return"
  /\ UNCHANGED <<args, cli, pkg, c, exitStatus, stderr, calls, signalHandler, fsOps, todo,
                 jobsRun, chResult, mode, ctxDone, engineVars>>

\* client.Run after the handler returned: the error is printed and the status
\* is 1, or Run returns.
clientRunReturn ==
  /\ runPc = "return"
  /\ IF ret = "err"
     THEN stderr' = Append(stderr, Line(0, "command error")) /\ exit(1)
     ELSE UNCHANGED stderr /\ exit(0)
  /\ UNCHANGED <<args, cli, pkg, c, calls, signalHandler, fsOps, todo, jobsRun, chResult,
                 mode, ret, ctxDone, engineVars>>


\* client.s3local, and client.s3stdout for the destination "-": the whole
\* download happens in the handler.  A key that is empty or ends with '/' is
\* refused; the progress line follows a download that succeeded, and a
\* download to the standard output prints none.  The destination is a path
\* to write to: an existing directory, to which the code appends the base
\* name of the key, is not among the destinations drawn.
s3local(openOk, getOk) ==
  /\ runPc = "handler" /\ mode = "s3local"
  /\ LET key == parsePath(src).key
         toStdout == dist = distStdout
     IN IF key = <<>> \/ key[Len(key)] = "/"
        THEN /\ stderr' = Append(stderr, Line(0, "invalid argument type"))
             /\ exit(1)
             /\ UNCHANGED <<jobsRun, calls, fsOps, ret>>
        ELSE IF isDryrun
        THEN /\ stderr' = Append(stderr, Line(NextJob, "progress"))
             /\ jobsRun' = Append(jobsRun, NewJob("download", key, dist, "dryrun"))
             /\ ret' = "nil"
             /\ runPc' = "return"
             /\ UNCHANGED <<calls, fsOps, exitStatus>>
        ELSE IF ~toStdout /\ ~openOk
        THEN /\ fsOps' = Append(fsOps, [op |-> "open", kind |-> "file", rel |-> dist, ok |-> FALSE])
             /\ ret' = "err"
             /\ runPc' = "return"
             /\ UNCHANGED <<stderr, jobsRun, calls, exitStatus>>
        ELSE /\ fsOps' = IF toStdout THEN fsOps
                         ELSE Append(fsOps, [op |-> "open", kind |-> "file", rel |-> dist, ok |-> TRUE])
             /\ calls' = Append(calls, Call("GetObject", NextJob, [Key |-> key]))
             /\ jobsRun' = Append(jobsRun, NewJob("download", key, dist,
                                                  IF getOk THEN "ok" ELSE "failed"))
             /\ stderr' = IF getOk /\ ~toStdout
                          THEN Append(stderr, Line(NextJob, "progress")) ELSE stderr
             /\ ret' = IF getOk THEN "nil" ELSE "err"
             /\ runPc' = "return"
             /\ UNCHANGED exitStatus
  /\ UNCHANGED <<args, cli, pkg, c, signalHandler, todo, chResult, mode, ctxDone, engineVars>>

\* The tree that locals3recursive walks: the entries of the source directory
\* are regular files, directories, symbolic links to a file and symbolic
\* links to a directory; every directory holds one regular file.
EntryKinds == {"file", "dir", "symlink to file", "symlink to dir"}
Digits == <<"1", "2", "3", "4", "5", "6", "7", "8", "9">>
\* the type bits fastwalk hands to the callback: those of the entry itself,
\* not of what a link points to.
entryType(kind) ==
  CASE kind = "file" -> "regular"
    [] kind = "dir" -> "ModeDir"
    [] OTHER -> "ModeSymlink"
\* os.FileMode.IsDir: the ModeDir bit is set.
IsDir(typ) == typ = "ModeDir"
\* the callback of locals3recursive up to the upload: "TraverseLink" or "nil"
\* for what it takes for a directory, "upload" otherwise.
walkFn(typ, followSymlinks) ==
  IF IsDir(typ)
  THEN IF typ = "ModeSymlink" /\ followSymlinks THEN "TraverseLink" ELSE "nil"
  ELSE "upload"
\* fastwalk.Walk enumerates a directory after the callback returned nil for
\* it, and the target of a symbolic link after the callback returned
\* TraverseLink for the link.
walkDescends(kind, result) ==
  \/ kind = "dir" /\ result = "nil"
  \/ entryType(kind) = "ModeSymlink" /\ result = "TraverseLink"

TopLevelVisits == {i \in DOMAIN fsOps : fsOps[i].op = "visit" /\ Len(fsOps[i].rel) = 1}

\* the select at the head of the callback of locals3recursive: with the
\* working context done the callback returns c.ctx.Err() at once.
walkCtxDone_never == FALSE
walkCtxDone == ctxDone

\* One call of the callback of locals3recursive by fastwalk.Walk, for the
\* next entry: a file of a directory being enumerated, or else the next entry
\* of the source directory.
walk(kind, openOk) ==
  /\ runPc = "handler" /\ mode = "locals3recursive"
  /\ todo # <<>> \/ Cardinality(TopLevelVisits) < MaxObjects
  /\ LET e == IF todo # <<>> THEN Head(todo)
              ELSE [kind |-> kind, rel |-> <<Digits[Cardinality(TopLevelVisits) + 1]>>]
         rest == IF todo # <<>> THEN Tail(todo) ELSE todo
         result == walkFn(entryType(e.kind), c.followSymlinks)
         key == Join(parsePath(dist).key, e.rel)
         visit == [op |-> "visit", kind |-> e.kind, rel |-> e.rel, ok |-> TRUE]
         what == IF e.kind = "symlink to dir" THEN "directory" ELSE "file"
     IN IF walkCtxDone
        THEN /\ ret' = "err"
             /\ runPc' = "wait"
             /\ todo' = <<>>
             /\ UNCHANGED <<fsOps, stderr, jobsRun>>
        ELSE IF result # "upload"
        THEN /\ IF walkDescends(e.kind, result)
                THEN /\ fsOps' = fsOps \o <<visit, [visit EXCEPT !.op = "traverse"]>>
                     /\ todo' = Append(rest, [kind |-> "file", rel |-> e.rel \o <<"/", "f">>])
                ELSE /\ fsOps' = Append(fsOps, visit)
                     /\ todo' = rest
             /\ UNCHANGED <<ret, runPc, stderr, jobsRun>>
        ELSE IF isDryrun
        THEN /\ fsOps' = Append(fsOps, visit)
             /\ stderr' = Append(stderr, Line(NextJob, "progress"))
             /\ jobsRun' = Append(jobsRun, NewJob(what, e.rel, key, "dryrun"))
             /\ todo' = rest
             /\ UNCHANGED <<ret, runPc>>
        ELSE /\ fsOps' = fsOps \o <<visit, [visit EXCEPT !.op = "open", !.ok = openOk]>>
             /\ IF openOk
                THEN /\ stderr' = Append(stderr, Line(NextJob, "progress"))
                     /\ jobsRun' = Append(jobsRun, NewJob(what, e.rel, key, "running"))
                     /\ todo' = rest
                     /\ UNCHANGED <<ret, runPc>>
                ELSE /\ ret' = "err"
                     /\ runPc' = "wait"
                     /\ todo' = <<>>
                     /\ UNCHANGED <<stderr, jobsRun>>
  /\ UNCHANGED <<args, cli, pkg, c, exitStatus, calls, signalHandler, chResult, mode,
                 ctxDone, engineVars>>

\* fastwalk.Walk returns nil after the last entry.
walkEnd ==
  /\ runPc = "handler" /\ mode = "locals3recursive"
  /\ todo = <<>>
  /\ ret' = "nil"
  /\ runPc' = "wait"
  /\ UNCHANGED <<args, cli, pkg, c, exitStatus, stderr, calls, signalHandler, fsOps, todo,
                 jobsRun, chResult, mode, ctxDone, engineVars>>


\* the prefix that the recursive handlers list: the key of the source, with a
\* '/' appended unless it is empty or ends with one.
listPrefix_noSlash(key) == key
listPrefix(key) == IF key # <<>> /\ key[Len(key)] # "/" THEN key \o <<"/">> ELSE key
\* The source bucket, in the order of a listing: n keys below the directory
\* that the source key names and, when sib, a sibling before them whose name
\* goes on after the name of the directory with a character other than '/'
\* (foo.zip beside foo/).
dirName(key) == IF key # <<>> /\ key[Len(key)] = "/" THEN SubSeq(key, 1, Len(key) - 1) ELSE key
siblingKey(key) == dirName(key) \o <<".">>
bucketKeys(key, n, sib) ==
  (IF sib THEN <<siblingKey(key)>> ELSE <<>>) \o [i \in 1..n |-> dirName(key) \o <<"/", Digits[i]>>]
\* ListObjectsV2 answers with the keys of the bucket that begin with Prefix
listedKeys(b, prefix) == SelectSeq(b, LAMBDA k : HasPrefix(k, prefix))

\* s3s3recursive and the lister of s3localrecursive: the page of
\* ListObjectsV2, which the handlers request also in a dry run.  When the
\* listing fails s3s3recursive cancels the working context and returns the
\* error; the lister of s3localrecursive sends it to chResult.
listObjects(ok, n, sib) ==
  /\ runPc = "handler" /\ mode \in {"s3s3recursive", "s3localrecursive"}
  /\ LET prefix == listPrefix(parsePath(src).key)
         b == bucketKeys(parsePath(src).key, n, sib)
     IN /\ calls' = Append(calls, Call("ListObjectsV2", 0, [Prefix |-> prefix]))
        /\ IF ok
           THEN /\ bucket' = b
                /\ todo' = listedKeys(b, prefix)
                /\ runPc' = "loop"
                /\ UNCHANGED <<ret, ctxDone, chResult>>
           ELSE IF mode = "s3s3recursive"
           THEN /\ ctxDone' = TRUE
                /\ ret' = "err"
                /\ runPc' = "wait"
                /\ UNCHANGED <<todo, chResult, bucket>>
           ELSE /\ chResult' = Append(chResult, [job |-> 0, err |-> TRUE, message |-> FALSE])
                /\ runPc' = "loop"
                /\ UNCHANGED <<todo, ret, ctxDone, bucket>>
  /\ UNCHANGED <<args, cli, pkg, c, exitStatus, stderr, signalHandler, fsOps, jobsRun,
                 mode, engineRest>>

\* s3s3recursive, one object of the page: the progress line, then the copy
\* unless the run is a dry run; after the last object the handler waits.
s3s3recursive ==
  /\ runPc = "loop" /\ mode = "s3s3recursive"
  /\ IF todo = <<>>
     THEN /\ runPc' = "wait"
          /\ UNCHANGED <<stderr, jobsRun, todo>>
     ELSE LET key == Head(todo)
              prefix == listPrefix(parsePath(src).key)
              distKey == Join(parsePath(dist).key, TrimPrefix(key, prefix))
          IN /\ stderr' = Append(stderr, Line(NextJob, "progress"))
             /\ jobsRun' = Append(jobsRun, NewJob("object", key, distKey,
                                                  IF isDryrun THEN "dryrun" ELSE "running"))
             /\ todo' = Tail(todo)
             /\ UNCHANGED runPc
  /\ UNCHANGED <<args, cli, pkg, c, exitStatus, calls, signalHandler, fsOps, chResult,
                 mode, ret, ctxDone, engineVars>>

\* s3localrecursive, a worker with one key: download (nothing but the message
\* in a dry run) and the results sent to chResult.  After an error the worker
\* sends the error and then, there being no continue, the empty message as
\* well; each send is a select with ctx.Done(), so that it may be skipped
\* once the working context is cancelled.
download(getOk, sendErr, sendMsg) ==
  /\ runPc = "loop" /\ mode = "s3localrecursive"
  /\ todo # <<>>
  /\ getOk => ~ctxDone
  /\ (~sendErr \/ ~sendMsg) => ctxDone
  /\ LET key == Head(todo)
         prefix == listPrefix(parsePath(src).key)
         distPath == Join(dist, TrimPrefix(key, prefix))
         j == NextJob
         errs == IF sendErr THEN <<[job |-> j, err |-> TRUE, message |-> FALSE]>> ELSE <<>>
     IN IF isDryrun
        THEN /\ jobsRun' = Append(jobsRun, NewJob("download", key, distPath, "dryrun"))
             /\ chResult' = IF sendMsg
                            THEN Append(chResult, [job |-> j, err |-> FALSE, message |-> TRUE])
                            ELSE chResult
             /\ UNCHANGED calls
        ELSE /\ calls' = Append(calls, Call("GetObject", j, [Key |-> key]))
             /\ jobsRun' = Append(jobsRun, NewJob("download", key, distPath,
                                                  IF getOk THEN "ok" ELSE "failed"))
             /\ chResult' =
                  IF getOk
                  THEN (IF sendMsg
                        THEN Append(chResult, [job |-> j, err |-> FALSE, message |-> TRUE])
                        ELSE chResult)
                  ELSE (IF sendErr /\ sendMsg
                        THEN chResult \o errs \o <<[job |-> j, err |-> FALSE, message |-> FALSE]>>
                        ELSE chResult \o errs)
  /\ todo' = Tail(todo)
  /\ UNCHANGED <<args, cli, pkg, c, runPc, exitStatus, stderr, signalHandler, fsOps,
                 mode, ret, ctxDone, engineVars>>

\* s3localrecursive: once the working context is cancelled the lister and
\* the workers return, whatever keys are left.
workersStop ==
  /\ runPc = "loop" /\ mode = "s3localrecursive"
  /\ ctxDone /\ todo # <<>>
  /\ todo' = <<>>
  /\ UNCHANGED <<args, cli, pkg, c, runPc, exitStatus, stderr, calls, signalHandler, fsOps,
                 jobsRun, chResult, mode, ret, ctxDone, engineVars>>

\* s3localrecursive, the loop over chResult: an error is printed, kept as the
\* error to return, and cancels the working context; a message is printed as
\* it is.  The loop ends when the lister and the workers are gone and the
\* channel is drained; the handler returns the error it kept.
s3localrecursive ==
  /\ runPc = "loop" /\ mode = "s3localrecursive"
  /\ IF chResult # <<>>
     THEN LET r == Head(chResult)
          IN /\ chResult' = Tail(chResult)
             /\ IF r.err
                THEN /\ stderr' = Append(stderr, Line(r.job, "error"))
                     /\ ret' = "err"
                     /\ ctxDone' = TRUE
                ELSE /\ stderr' = Append(stderr, Line(r.job, IF r.message THEN "progress" ELSE "empty"))
                     /\ UNCHANGED <<ret, ctxDone>>
             /\ UNCHANGED runPc
     ELSE /\ todo = <<>>
          /\ ret' = IF ret = "err" THEN "err" ELSE "nil"
          /\ runPc' = "return"
          /\ UNCHANGED <<chResult, stderr, ctxDone>>
  /\ UNCHANGED <<args, cli, pkg, c, exitStatus, calls, signalHandler, fsOps, todo, jobsRun,
                 mode, engineVars>>

CmdNext ==
  \/ parseFlags
  \/ \E usageOk \in BOOLEAN : Run(usageOk)
  \/ \E clientOk \in BOOLEAN : clientRun(clientOk)
  \/ \E openOk \in BOOLEAN : locals3(openOk)
  \/ s3s3
  \/ \E openOk, getOk \in BOOLEAN : s3local(openOk, getOk)
  \/ \E kind \in EntryKinds, openOk \in BOOLEAN : walk(kind, openOk)
  \/ walkEnd
  \/ \E ok, sib \in BOOLEAN, n \in 0..MaxObjects : listObjects(ok, n, sib)
  \/ s3s3recursive
  \/ \E getOk, sendErr, sendMsg \in BOOLEAN : download(getOk, sendErr, sendMsg)
  \/ workersStop
  \/ s3localrecursive
  \/ \E j \in 1..(2 * MaxObjects), ok \in BOOLEAN,
        op \in {"PutObject", "CreateMultipartUpload", "CopyObject", "none"} : jobResult(j, ok, op)
  \/ handlerReturn
  \/ clientRunReturn

CmdSpec == CmdInit /\ [][CmdNext]_vars

----------------------------------------------------------------------------
\* The recursive download, goroutine by goroutine: the lister, the parallel
\* workers, the goroutine that closes chResult and the loop over chResult of
\* s3localrecursive.  Both channels have capacity parallel.  A select with
\* more than one case ready takes any of them.

\* the listings: at least one page is requested, every page but the last is
\* full; the keys are numbered 1, 2, ... in the order of the listing.
RECURSIVE Sum(_)
Sum(q) == IF q = <<>> THEN 0 ELSE Head(q) + Sum(Tail(q))
PagesOf(n) ==
  [i \in 1..(IF n = 0 THEN 1 ELSE CeilDiv(n, PageSize)) |-> Min(PageSize, n - (i - 1) * PageSize)]
PageLists == {PagesOf(n) : n \in 0..MaxKeys}
keyAt(page, idx) == Sum(SubSeq(pages, 1, page - 1)) + idx
Listing == 1..Sum(pages)

\* s3localrecursive up to its loop: the lister and the workers are started
\* and counted in wg, the closing goroutine waits.
DlInit ==
  /\ CmdHandedOver
  /\ EngineIdle
  /\ mode = "s3localrecursive"
  /\ ret = "none"
  /\ ctxDone = FALSE
  /\ pages \in PageLists
  /\ lister = [pc |-> "page", page |-> 1, idx |-> 0]
  /\ chSource = <<>>
  /\ srcClosed = FALSE
  /\ nClose = 0
  /\ worker = [w \in Workers |-> [pc |-> "recv", key |-> 0]]
  /\ dwg = parallel + 1
  /\ loopPc = "range"
  /\ dlErr = FALSE
  /\ downloads = [k \in 1..MaxKeys |-> 0]
  /\ lateSends = 0
  /\ printed = [k \in 0..MaxKeys |-> {}]

\* what a DlSpec step of a goroutine leaves alone
dlRest == <<args, cli, pkg, c, runPc, exitStatus, calls, signalHandler, fsOps, todo,
            jobsRun, mode, jobs, mainPc, cur, u, walkErr, ctxAbortDone, sigCount,
            poolVars, objVars, storeVars, histVars, errVars, pages, bucket>>

\* a send on a channel of capacity parallel can proceed
chanReady_unbounded(ch) == TRUE
chanReady(ch) == Len(ch) < parallel

\* the case <-c.ctx.Done() of the select in which the lister sends a key
listerCtxDone_never == FALSE
listerCtxDone == ctxDone

\* the lister returns: the deferred close(chSource) and wg.Done().
listerExit ==
  /\ lister' = [lister EXCEPT !.pc = "done"]
  /\ srcClosed' = TRUE
  /\ dwg' = dwg - 1

\* the lister at the head of its loop: without a further page it returns;
\* otherwise NextPage(c.ctx) returns the page or an error.
listerNextPage(ok) ==
  /\ lister.pc = "page"
  /\ IF lister.page > Len(pages)
     THEN listerExit
     ELSE /\ MayReturn(ok, ctxDone)
          /\ lister' = IF ~ok THEN [lister EXCEPT !.pc = "sendErr"]
                       ELSE IF pages[lister.page] = 0
                       THEN [lister EXCEPT !.page = @ + 1]
                       ELSE [lister EXCEPT !.pc = "send", !.idx = 1]
          /\ UNCHANGED <<srcClosed, dwg>>
  /\ UNCHANGED <<chSource, chResult, nClose, worker, loopPc, dlErr, downloads, lateSends,
                 printed, stderr, ret, ctxDone, dlRest>>

\* the select of the lister after an error of NextPage: the error is sent to
\* chResult, or the context is done; then the lister returns.
listerSendErr(send) ==
  /\ lister.pc = "sendErr"
  /\ IF send
     THEN /\ chanReady(chResult)
          /\ chResult' = Append(chResult, [job |-> 0, err |-> TRUE, message |-> FALSE])
     ELSE /\ ctxDone
          /\ UNCHANGED chResult
  /\ listerExit
  /\ UNCHANGED <<chSource, nClose, worker, loopPc, dlErr, downloads, lateSends,
                 printed, stderr, ret, ctxDone, dlRest>>

\* the select of the lister for one key of the page: the key is sent to
\* chSource, or the context is done and the lister returns.
listerSend(send) ==
  /\ lister.pc = "send"
  /\ IF send
     THEN /\ chanReady(chSource)
          /\ chSource' = Append(chSource, keyAt(lister.page, lister.idx))
          /\ lateSends' = IF ctxDone THEN lateSends + 1 ELSE lateSends
          /\ lister' = IF lister.idx < pages[lister.page]
                       THEN [lister EXCEPT !.idx = @ + 1]
                       ELSE [lister EXCEPT !.pc = "page", !.page = @ + 1, !.idx = 0]
          /\ UNCHANGED <<srcClosed, dwg>>
     ELSE /\ listerCtxDone
          /\ listerExit
          /\ UNCHANGED <<chSource, lateSends>>
  /\ UNCHANGED <<chResult, nClose, worker, loopPc, dlErr, downloads,
                 printed, stderr, ret, ctxDone, dlRest>>

\* a worker returns: the deferred wg.Done().
workerExit(w) ==
  /\ worker' = [worker EXCEPT ![w].pc = "done"]
  /\ dwg' = dwg - 1

\* the first select of a worker: a key is received and download is called
\* with it, or chSource is closed and empty, or the context is done.
workerRecv(w, recv) ==
  /\ worker[w].pc = "recv"
  /\ IF recv
     THEN IF chSource # <<>>
          THEN /\ worker' = [worker EXCEPT ![w] = [pc |-> "download", key |-> Head(chSource)]]
               /\ chSource' = Tail(chSource)
               /\ downloads' = [downloads EXCEPT ![Head(chSource)] = @ + 1]
               /\ UNCHANGED dwg
          ELSE /\ srcClosed
               /\ workerExit(w)
               /\ UNCHANGED <<chSource, downloads>>
     ELSE /\ ctxDone
          /\ workerExit(w)
          /\ UNCHANGED <<chSource, downloads>>
  /\ UNCHANGED <<lister, srcClosed, chResult, nClose, loopPc, dlErr, lateSends,
                 printed, stderr, ret, ctxDone, dlRest>>

\* download returns to the worker, with the message or with an error.
workerDownloaded(w, ok) ==
  /\ worker[w].pc = "download"
  /\ MayReturn(ok, ctxDone)
  /\ worker' = [worker EXCEPT ![w].pc = IF ok THEN "sendMsg" ELSE "sendErr"]
  /\ UNCHANGED <<lister, chSource, srcClosed, chResult, nClose, dwg, loopPc, dlErr,
                 downloads, lateSends, printed, stderr, ret, ctxDone, dlRest>>

\* the select of a worker after an error of download: the error is sent to
\* chResult, or the context is done and the worker returns.  After the send
\* the worker goes on to the select that sends the message, which is empty.
workerSendErr(w, send) ==
  /\ worker[w].pc = "sendErr"
  /\ IF send
     THEN /\ chanReady(chResult)
          /\ chResult' = Append(chResult, [job |-> worker[w].key, err |-> TRUE, message |-> FALSE])
          /\ worker' = [worker EXCEPT ![w].pc = "sendEmpty"]
          /\ UNCHANGED dwg
     ELSE /\ ctxDone
          /\ workerExit(w)
          /\ UNCHANGED chResult
  /\ UNCHANGED <<lister, chSource, srcClosed, nClose, loopPc, dlErr, downloads, lateSends,
                 printed, stderr, ret, ctxDone, dlRest>>

\* the last select of the loop of a worker: the message is sent to chResult
\* and the worker takes the next key, or the context is done and it returns.
workerSendMsg(w, send) ==
  /\ worker[w].pc \in {"sendMsg", "sendEmpty"}
  /\ IF send
     THEN /\ chanReady(chResult)
          /\ chResult' = Append(chResult, [job |-> worker[w].key, err |-> FALSE,
                                           message |-> worker[w].pc = "sendMsg"])
          /\ worker' = [worker EXCEPT ![w].pc = "recv"]
          /\ UNCHANGED dwg
     ELSE /\ ctxDone
          /\ workerExit(w)
          /\ UNCHANGED chResult
  /\ UNCHANGED <<lister, chSource, srcClosed, nClose, loopPc, dlErr, downloads, lateSends,
                 printed, stderr, ret, ctxDone, dlRest>>

\* the goroutine of wg.Wait() and close(chResult).
dlWgWait_noWait == TRUE
dlWgWait == dwg = 0
closeResult ==
  /\ loopPc # "none" /\ nClose = 0
  /\ dlWgWait
  /\ nClose' = nClose + 1
  /\ UNCHANGED <<lister, chSource, srcClosed, chResult, worker, dwg, loopPc, dlErr,
                 downloads, lateSends, printed, stderr, ret, ctxDone, dlRest>>

\* the loop over chResult, one result: an error is printed, kept and cancels
\* the working context, a message is printed (the lines are recorded per
\* key, their order being that of chResult); when chResult is closed and
\* empty the loop ends and s3localrecursive returns err.
resultLoop ==
  /\ loopPc = "range"
  /\ IF chResult # <<>>
     THEN LET r == Head(chResult)
          IN /\ chResult' = Tail(chResult)
             /\ IF r.err
                THEN /\ printed' = [printed EXCEPT ![r.job] = @ \cup {"error"}]
                     /\ dlErr' = TRUE
                     /\ ctxDone' = TRUE
                ELSE /\ printed' = [printed EXCEPT ![r.job] =
                                      @ \cup {IF r.message THEN "progress" ELSE "empty"}]
                     /\ UNCHANGED <<dlErr, ctxDone>>
             /\ UNCHANGED <<loopPc, ret>>
     ELSE /\ nClose > 0
          /\ loopPc' = "return"
          /\ ret' = IF dlErr THEN "err" ELSE "nil"
          /\ UNCHANGED <<chResult, printed, dlErr, ctxDone>>
  /\ UNCHANGED <<lister, chSource, srcClosed, nClose, worker, dwg, downloads, lateSends,
                 stderr, dlRest>>

\* the steps of the goroutines of the download: everything but a signal.
DlProgress ==
  \/ \E ok \in BOOLEAN : listerNextPage(ok)
  \/ \E send \in BOOLEAN : listerSendErr(send)
  \/ \E send \in BOOLEAN : listerSend(send)
  \/ \E w \in Workers, recv \in BOOLEAN : workerRecv(w, recv)
  \/ \E w \in Workers, ok \in BOOLEAN : workerDownloaded(w, ok)
  \/ \E w \in Workers, send \in BOOLEAN : workerSendErr(w, send)
  \/ \E w \in Workers, send \in BOOLEAN : workerSendMsg(w, send)
  \/ closeResult
  \/ resultLoop

\* the first signal, which cancels the working context (handleSignal); the
\* cleanup context that later signals cancel is not used by the download.
dlSignal == loopPc = "range" /\ sigCount = 0 /\ handleSignal

DlNext == dlSignal \/ DlProgress

DlSpec == DlInit /\ [][DlNext]_vars

\* every goroutine that can take a step eventually takes one, and every store
\* call returns; signals need not arrive.
FairDlSpec == DlSpec /\ WF_vars(DlProgress)

----------------------------------------------------------------------------
\* Remote-to-remote copies.

\* C21: a remote-to-remote copy calls CreateMultipartUpload only for a source
\* longer than maxCopyObjectBytes and CopyObject only for a source of at most
\* maxCopyObjectBytes bytes; once copy() has returned for a source whose
\* HeadObject succeeded, without cancellation, a source of at most
\* maxCopyObjectBytes bytes (exactly that size included) has had exactly one
\* CopyObject and no CreateMultipartUpload, and a longer one (one byte longer
\* included) exactly one CreateMultipartUpload and no CopyObject.
C21_CopyObjectIffAtMostMax ==
  \A o \in Objs : IsCopy(o) =>
    /\ nCreate[o] > 0 => jobs[o].size > maxCopyObjectBytes
    /\ PutRequests(o) # {} => jobs[o].size <= maxCopyObjectBytes
    /\ (Handled(o) /\ ~ctxDone /\ "HeadObject" \notin failedCalls[o]) =>
         IF jobs[o].size <= maxCopyObjectBytes
         THEN Cardinality(PutRequests(o)) = 1 /\ nCreate[o] = 0
         ELSE PutRequests(o) = {} /\ nCreate[o] = 1

\* one run copied a source of exactly maxCopyObjectBytes bytes with CopyObject
\* and a source one byte longer as a multipart upload.
C21_Witness ==
  \E a, b \in Objs :
    /\ IsCopy(a) /\ IsCopy(b)
    /\ jobs[a].size = maxCopyObjectBytes /\ jobs[b].size = maxCopyObjectBytes + 1
    /\ PutRequests(a) # {} /\ nCreate[a] = 0
    /\ nCreate[b] = 1 /\ PutRequests(b) = {}

\* the byte ranges of a multipart copy of `size` bytes, as <<first, last>>.
CopyRanges(o) == [i \in 1..Len(sent[o]) |-> <<sent[o][i].pos, sent[o][i].pos + sent[o][i].len - 1>>]

\* C22: once the loop of a multipart copy of `size` bytes has ended without
\* cancellation, there are N = ceil(size / chunk) UploadPartCopy requests,
\* numbered 1..N in order, the range of part i being
\* [(i-1)*chunk, min((i-1)*chunk + chunk - 1, size - 1)]: every range is
\* non-empty, each starts right after the one before, the first starts at 0
\* and the last ends at size - 1.
C22_CopyRangesTileTheSource ==
  \A o \in Objs : (IsCopy(o) /\ Created(o) /\ fin[o] # "none" /\ ~cutShort[o]) =>
    LET size == jobs[o].size
        N == Len(sent[o])
        R == CopyRanges(o)
    IN /\ N = CeilDiv(size, copyChunkBytes)
       /\ \A i \in 1..N :
            /\ sent[o][i].num = i
            /\ R[i][1] = (i - 1) * copyChunkBytes
            /\ R[i][2] = Min(R[i][1] + copyChunkBytes - 1, size - 1)
            /\ R[i][1] <= R[i][2]
            /\ i > 1 => R[i][1] = R[i - 1][2] + 1
       /\ R[1][1] = 0 /\ R[N][2] = size - 1

\* a source of chunk + 1 bytes was copied as the ranges [0, chunk-1] and
\* [chunk, chunk].
C22_Witness ==
  \E o \in Objs :
    /\ IsCopy(o) /\ Created(o) /\ fin[o] # "none" /\ ~cutShort[o]
    /\ jobs[o].size = copyChunkBytes + 1
    /\ CopyRanges(o) = << <<0, copyChunkBytes - 1>>, <<copyChunkBytes, copyChunkBytes>> >>

----------------------------------------------------------------------------
\* Store requests that hold no slot of the pool.

\* HeadObject or CreateMultipartUpload of the main goroutine is in flight.
MainInFlight == IF mainPc \in {"head", "create"} THEN 1 ELSE 0
\* the objects whose AbortMultipartUpload / CompleteMultipartUpload is in flight.
FinalInFlight == {o \in Objs : fin[o] \in {"abort", "complete"}}
\* all store requests in flight.
TotalInFlight == Cardinality(InFlight) + MainInFlight + Cardinality(FinalInFlight)

----------------------------------------------------------------------------
\* The command: arguments, flags, dry run, keys, symbolic links, lines.

Exited == runPc = "exit"
LinesOf(j) == {i \in DOMAIN stderr : stderr[i].job = j}
KindsOf(j) == {stderr[i].kind : i \in LinesOf(j)}
\* the store requests that create an object from a local source
UploadCalls == {i \in DOMAIN calls : calls[i].op \in {"PutObject", "CreateMultipartUpload"}
                                      /\ jobsRun[calls[i].job].what \in {"file", "stdin"}}

\* C23 (as claimed): with a number of positional arguments other than two the
\* command prints the usage, exits with status 1 and sends no store request.
C23_WrongArgumentCountExitsOne ==
  (Exited /\ Len(args) # 2) =>
    /\ exitStatus = 1
    /\ KindsOf(0) \cap {"usage", "usage error"} # {}
    /\ calls = <<>>

\* the values of --acl and --expires that the command accepts
AcceptedAcl(value) ==
  value \in {"", "private", "public-read", "public-read-write", "authenticated-read",
             "aws-exec-read", "bucket-owner-read", "bucket-owner-full-control"}
AcceptedExpires(value) ==
  value \in {"", "2026-01-02T15:04:05Z", "2026-01-02T15:04:05+09:00"}

\* C24: once Run is past its checks on a command line with two arguments, a
\* value of --acl that is neither empty nor one of the seven canned ACLs, and
\* a value of --expires that is not an RFC 3339 timestamp, has ended the
\* process with status 1 and the one line of the validation error, with no
\* store request sent, no file opened, no job started and the signal handler
\* not started.
C24_InvalidFlagValueRejectedFirst ==
  (Len(args) = 2 /\ runPc \notin {"parse", "Run"}
      /\ (~AcceptedAcl(cli.acl) \/ ~AcceptedExpires(cli.expires))) =>
    /\ Exited /\ exitStatus = 1
    /\ stderr = <<Line(0, "validation error")>>
    /\ calls = <<>> /\ fsOps = <<>> /\ jobsRun = <<>>
    /\ ~signalHandler

\* `--acl Private` (the names are case-sensitive) was refused.
C24_Witness ==
  /\ Len(args) = 2 /\ cli.acl = "Private"
  /\ Exited /\ exitStatus = 1 /\ ~signalHandler /\ calls = <<>>

Given(flag) ==
  IF \E i \in DOMAIN cli.opts : cli.opts[i][1] = flag
  THEN cli.opts[CHOOSE i \in DOMAIN cli.opts : cli.opts[i][1] = flag][2]
  ELSE Absent

\* C26 (as claimed): PutObject and CreateMultipartUpload of an upload carry
\* the value of --content-disposition as ContentDisposition and the value of
\* --cache-control as CacheControl, and no value for a flag that is not given.
C26_OptionsSentInTheirOwnField ==
  \A i \in UploadCalls :
    /\ calls[i].in.ContentDisposition = Given("content-disposition")
    /\ calls[i].in.CacheControl = Given("cache-control")

\* what follows the last '/' of a path that does not end with '/'
LastSegment(path) ==
  CHOOSE t \in {SubSeq(path, i, Len(path)) : i \in 1..Len(path)} :
    /\ \A i \in DOMAIN t : t[i] # "/"
    /\ Len(t) = Len(path) \/ path[Len(path) - Len(t)] = "/"
HasLastSegment(path) == path # <<>> /\ path[Len(path)] # "/"

\* C27: in a non-recursive upload or copy whose source names a file or an
\* object, the key of the job is the destination key followed by the last
\* segment of the source (of the path of a local source, of the key of a
\* remote one) when the destination key is empty or ends with '/', and the
\* destination key itself otherwise; the requests that create the object
\* carry that key.
C27_DestinationKeyDerivation ==
  (mode \in {"locals3", "s3s3"}) =>
    LET source == IF mode = "s3s3" THEN parsePath(args[1]).key ELSE args[1]
        given == parsePath(args[2]).key
    IN /\ \A j \in DOMAIN jobsRun : HasLastSegment(source) =>
            jobsRun[j].key = IF given = <<>> \/ given[Len(given)] = "/"
                             THEN given \o LastSegment(source)
                             ELSE given
       /\ \A i \in DOMAIN calls :
            calls[i].op \in {"PutObject", "CreateMultipartUpload", "CopyObject"} =>
              calls[i].in.Key = jobsRun[calls[i].job].key

\* `cp d/f s3://b/p/` sent PutObject with the key p/f, and so did `cp d/f
\* s3://b` with the key f.
C27_Witness ==
  /\ mode = "locals3" /\ args[1] = <<"d", "/", "f">>
  /\ \E i \in DOMAIN calls :
       /\ calls[i].op = "PutObject"
       /\ \/ args[2] = s3scheme \o <<"b", "/", "p", "/">> /\ calls[i].in.Key = <<"p", "/", "f">>
          \/ args[2] = s3scheme \o <<"b">> /\ calls[i].in.Key = <<"f">>

\* C28 (as claimed): in a recursive upload a symbolic link to a directory is
\* traversed if and only if follow-symlinks is enabled, and it is never
\* opened as if it were a file.
C28_SymlinkToDirTraversedIffFollowed ==
  \A i \in DOMAIN fsOps : fsOps[i].kind = "symlink to dir" =>
    /\ fsOps[i].op # "open"
    /\ fsOps[i].op = "traverse" => c.followSymlinks
    /\ (fsOps[i].op = "visit" /\ c.followSymlinks) =>
         \E k \in DOMAIN fsOps : fsOps[k].op = "traverse" /\ fsOps[k].rel = fsOps[i].rel

\* C29 (as claimed): when the command has ended, a job that succeeded has
\* exactly one line, its progress line, and a job that failed has at most one
\* error line of its own and neither a progress line nor an empty line.
C29_OneLinePerJob ==
  Exited =>
    \A j \in DOMAIN jobsRun :
      /\ jobsRun[j].state = "ok" =>
           Cardinality(LinesOf(j)) = 1 /\ KindsOf(j) = {"progress"}
      /\ jobsRun[j].state = "failed" =>
           Cardinality(LinesOf(j)) <= 1 /\ KindsOf(j) \subseteq {"error"}

----------------------------------------------------------------------------
\* The slots of the pool.

\* the goroutines that were started after acquire() returned true and have
\* not yet run their deferred release(), and those that have.
Holding == {op \in Objs \X (0..MaxParts) : req[op[1]][op[2]] \in {"inflight", "seterr"}}
Released == {op \in Objs \X (0..MaxParts) : req[op[1]][op[2]] = "done"}
RECURSIVE SumLen(_, _)
SumLen(f, S) == IF S = {} THEN 0 ELSE LET o == CHOOSE x \in S : TRUE IN Len(f[o]) + SumLen(f, S \ {o})

\* C31: every acquire() that returned true is matched by one release() of the
\* goroutine started for it, whether its request succeeds, fails or is
\* cancelled, and an acquire() that returned false by none: the semaphore
\* holds exactly one element for every started goroutine that has not yet
\* released, every request issued belongs to a goroutine that holds its slot
\* or has released it once, the semaphore never underflows nor exceeds its
\* capacity, and it is empty at quiescence.
C31_EveryAcquireReleasedOnce ==
  /\ semaphore = Cardinality(Holding)
  /\ semaphore >= 0 /\ semaphore <= parallel
  /\ Cardinality(Holding) + Cardinality(Released) = SumLen(sent, Objs)
  /\ Quiescent => semaphore = 0 /\ Holding = {}

\* a run ended with the pool empty after a part succeeded, a part failed and
\* an acquire() returned false.
C31_Witness ==
  /\ Quiescent /\ semaphore = 0
  /\ \E o \in Objs : okParts[o] # {} /\ badParts[o] # {}
  /\ \E o \in Objs : cutShort[o]

----------------------------------------------------------------------------
\* Sources of unknown size.

\* C32: a stream (a source of unknown size) of S > chunk bytes that is read
\* without an error is dispatched as the parts 1..N, N = ceil(S / chunk),
\* part i carrying the bytes [(i-1)*chunk, min(i*chunk, S)) of the source:
\* the requests issued so far are a prefix of that list, and the whole list
\* once the dispatch loop has ended without cancellation.  So the bodies in
\* part-number order are the source, every part but the last has chunk
\* bytes, and a last part shorter than a chunk is uploaded.
C32_StreamPartsAreTheSource ==
  \A o \in Objs :
    (o \in DOMAIN jobs /\ jobs[o].kind = "stream" /\ jobs[o].failAt = -1
       /\ jobs[o].size > copyChunkBytes) =>
      /\ IsPrefix(sent[o], ExpectedParts(jobs[o].size))
      /\ (fin[o] # "none" /\ ~cutShort[o]) => sent[o] = ExpectedParts(jobs[o].size)

\* a stream of chunk + 1 bytes was uploaded as a part of chunk bytes and a
\* part of one byte, and the upload was completed with both.
C32_Witness ==
  \E o \in Objs :
    /\ o \in DOMAIN jobs
    /\ jobs[o].kind = "stream" /\ jobs[o].failAt = -1 /\ jobs[o].size = copyChunkBytes + 1
    /\ Len(sent[o]) = 2 /\ sent[o][1].len = copyChunkBytes /\ sent[o][2].len = 1
    /\ mpu[o] = "completed" /\ completeArg[o] = <<1, 2>>

----------------------------------------------------------------------------
\* The recursive download.

DlReturned == loopPc = "return"
DlAllExited == lister.pc = "done" /\ \A w \in Workers : worker[w].pc = "done"

\* C33: in a recursive download no key is handed to download more than once;
\* and when s3localrecursive has returned from a run that met no error and no
\* cancellation, every key of the listing has been downloaded exactly once
\* and has its one line, the lister and all workers have exited, chResult is
\* closed and the value returned is nil.
C33_EveryKeyDownloadedOnce ==
  /\ \A k \in 1..MaxKeys : downloads[k] <= 1
  /\ \A k \in 1..MaxKeys : downloads[k] = 1 => k \in Listing
  /\ (DlReturned /\ ~ctxDone) =>
       /\ \A k \in Listing : downloads[k] = 1 /\ printed[k] = {"progress"}
       /\ \A k \in (0..MaxKeys) \ Listing : printed[k] = {}
       /\ DlAllExited /\ nClose = 1
       /\ ret = "nil"

\* a listing of more keys than the channel holds, in two pages, was
\* downloaded key by key and the handler returned nil.
C33_Witness ==
  /\ DlReturned /\ ~ctxDone /\ ret = "nil"
  /\ Len(pages) = 2 /\ Cardinality(Listing) > parallel
  /\ \A k \in Listing : downloads[k] = 1

\* An upper bound on the steps the goroutines of the download can still
\* take: the lister one per page and per key and two to end, a worker four
\* per key and one to end, the loop over chResult one per result and one to
\* end, and the close of chResult.
KeysToSend ==
  CASE lister.pc = "page" -> Sum(SubSeq(pages, lister.page, Len(pages)))
    [] lister.pc = "send" -> Sum(SubSeq(pages, lister.page, Len(pages))) - (lister.idx - 1)
    [] OTHER -> 0
ListerStepsLeft ==
  CASE lister.pc = "done" -> 0
    [] lister.pc = "sendErr" -> 1
    [] lister.pc = "page" -> KeysToSend + (Len(pages) + 1 - lister.page) + 2
    [] OTHER -> KeysToSend + (Len(pages) - lister.page) + 2
KeysToTake == KeysToSend + Len(chSource)
WorkerStepsLeft(w) ==
  CASE worker[w].pc = "recv" -> 1
    [] worker[w].pc = "download" -> 4
    [] worker[w].pc = "sendErr" -> 3
    [] worker[w].pc \in {"sendMsg", "sendEmpty"} -> 2
    [] OTHER -> 0
ResultsToCome(w) ==
  CASE worker[w].pc \in {"download", "sendErr"} -> 2
    [] worker[w].pc \in {"sendMsg", "sendEmpty"} -> 1
    [] OTHER -> 0
RECURSIVE SumOver(_, _)
SumOver(F(_), S) == IF S = {} THEN 0 ELSE LET x == CHOOSE y \in S : TRUE IN F(x) + SumOver(F, S \ {x})
LoopStepsLeft ==
  IF loopPc = "return" THEN 0
  ELSE 1 + Len(chResult) + 2 * KeysToTake + SumOver(ResultsToCome, Workers)
         + (IF lister.pc = "done" THEN 0 ELSE 1)
DlStepsLeft ==
  ListerStepsLeft + 4 * KeysToTake + SumOver(WorkerStepsLeft, Workers)
  + (IF nClose = 0 THEN 1 ELSE 0) + LoopStepsLeft

\* C34: the recursive download terminates without deadlock, whatever errors
\* of the listing and of the downloads and whatever cancellation it meets.
\* Every step of a goroutine lowers DlStepsLeft, which is never negative, and
\* a signal leaves it alone, so the goroutines stop after finitely many
\* steps; and in a state where no goroutine can take a step the lister and
\* all workers have exited, chResult has been closed, once, and is drained,
\* and the loop over it has ended.
C34_DownloadTerminates ==
  /\ [](DlStepsLeft >= 0)
  /\ [][IF DlProgress THEN DlStepsLeft' < DlStepsLeft ELSE DlStepsLeft' = DlStepsLeft]_vars
  /\ []((~ENABLED DlProgress) => (DlReturned /\ DlAllExited /\ nClose = 1 /\ chResult = <<>>))
  /\ [](nClose <= 1 /\ (DlReturned => DlAllExited /\ nClose = 1))

\* the same claim as an eventuality, under weak fairness of the goroutines'
\* steps.
C34_Eventually == <>[](DlReturned /\ DlAllExited /\ nClose = 1 /\ chResult = <<>>)

\* a run in which a download failed, the loop cancelled the working context
\* and everything came to rest with the error returned.
C34_Witness ==
  /\ DlReturned /\ DlAllExited /\ nClose = 1
  /\ ret = "err" /\ ctxDone
  /\ \E k \in Listing : "error" \in printed[k]

\* C35 (as claimed): chSource never holds more than parallel keys, and the
\* lister sends no key once the working context is cancelled.
C35_ListerStopsAtOnce ==
  /\ Len(chSource) <= parallel
  /\ lateSends = 0

\* C35 (amended): chSource never holds more than parallel keys: the lister
\* sends only while the channel has room.  Once the working context is
\* cancelled the lister gets no further page and so sends no key of a later
\* page; of the page at hand it may still send keys, since its select takes
\* either case that is ready.
C35_Backpressure ==
  /\ [](Len(chSource) <= parallel)
  /\ [][ctxDone => (lister'.pc = "send" => (lister.pc = "send" /\ lister'.page = lister.page))]_vars
  /\ [][(Len(chSource) = parallel) => (Len(chSource') <= parallel)]_vars

\* chSource is full and the lister waits with a further key in hand.
C35_Witness ==
  /\ Len(chSource) = parallel
  /\ lister.pc = "send"
  /\ ~ctxDone

----------------------------------------------------------------------------
\* The walk of a recursive upload.

\* C36: in a recursive upload, once the working context is cancelled no
\* entry gets past the head of the callback: no file is opened, no directory
\* or link is traversed, no job (no uploader, hence no PutObject and no
\* CreateMultipartUpload of a new entry) is started, and the call of the
\* callback for a further entry ends the walk with the error of the context.
C36_WalkInterruptible ==
  [][(mode = "locals3recursive" /\ ctxDone) =>
       /\ fsOps' = fsOps
       /\ Len(jobsRun') = Len(jobsRun)
       /\ \A i \in DOMAIN calls' \ DOMAIN calls : calls'[i].job \in DOMAIN jobsRun
       /\ (runPc = "handler" /\ runPc' # "handler") =>
            (runPc' = "wait" /\ todo' = <<>> /\ (todo # <<>> => ret' = "err"))]_vars

\* an upload of the walk failed and cancelled the working context; the walk
\* was then ended by the callback, with an entry still to visit, and no file
\* had failed to open.
C36_Witness ==
  /\ mode = "locals3recursive" /\ ctxDone
  /\ runPc = "wait" /\ ret = "err"
  /\ \A i \in DOMAIN fsOps : fsOps[i].ok
  /\ \E j \in DOMAIN jobsRun : jobsRun[j].state = "failed"
  /\ Len(jobsRun) < MaxObjects

----------------------------------------------------------------------------
\* The keys of a recursive copy.

srcP == parsePath(src).key
distD == parsePath(dist).key
\* a recursive copy whose source prefix is given without a trailing '/'
CopyOfDirectory == mode = "s3s3recursive" /\ srcP # <<>> /\ srcP[Len(srcP)] # "/"
UnderP(k) == HasPrefix(k, srcP \o <<"/">>)
JobSources == [j \in DOMAIN jobsRun |-> jobsRun[j].from]

\* C37: a recursive copy from the prefix P, given without a trailing '/', to
\* the prefix D copies exactly the keys of the bucket that start with P + '/':
\* the keys copied and the keys still to visit are, in the order of the
\* listing, the keys of the bucket under P + '/', none is left when the
\* handler waits, each is copied to join(D, key without P + '/'), and the
\* requests of a copy name these two keys; a sibling that only starts with P
\* is never a source.
C37_CopiesExactlyTheDirectory ==
  CopyOfDirectory =>
    /\ JobSources \o todo = SelectSeq(bucket, UnderP)
    /\ runPc \in {"wait", "return", "exit"} => todo = <<>>
    /\ \A j \in DOMAIN jobsRun :
         /\ jobsRun[j].what = "object"
         /\ UnderP(jobsRun[j].from)
         /\ jobsRun[j].from # siblingKey(srcP)
         /\ jobsRun[j].key = Join(distD, TrimPrefix(jobsRun[j].from, srcP \o <<"/">>))
    /\ \A i \in DOMAIN calls :
         /\ calls[i].op = "ListObjectsV2" => calls[i].in.Prefix = srcP \o <<"/">>
         /\ calls[i].op = "HeadObject" => calls[i].in.Key = jobsRun[calls[i].job].from
         /\ calls[i].op \in {"CopyObject", "CreateMultipartUpload"} =>
              calls[i].in.Key = jobsRun[calls[i].job].key

\* a recursive copy of s3://b/k to s3://b/p/ ended with status 0 in a bucket
\* that holds k., k/1 and k/2: k/1 and k/2 were copied to p/1 and p/2.
C37_Witness ==
  /\ CopyOfDirectory /\ ~cli.dryrun
  /\ Exited /\ exitStatus = 0
  /\ bucket = <<siblingKey(srcP), srcP \o <<"/", "1">>, srcP \o <<"/", "2">>>>
  /\ Len(jobsRun) = 2
  /\ \A j \in 1..2 : jobsRun[j].state = "ok" /\ jobsRun[j].key = distD \o <<"/", Digits[j]>>
  /\ distD # <<>>

----------------------------------------------------------------------------
\* The source handle of an upload.

\* the part-level requests of o that have not returned: the request is in
\* flight, or its goroutine is still in setError
Unreturned(o) == {p \in 0..MaxParts : req[o][p] \in {"inflight", "seterr"}}

\* C38: the source of an upload is closed only when every part-level request
\* that reads from it has returned: while a PutObject or an UploadPart of the
\* object is in flight the source is open, the step that closes it leaves no
\* such request behind, and no request starts on a closed source.
C38_ClosedAfterTheParts ==
  /\ [](\A o \in Objs : closed[o] => Unreturned(o) = {})
  /\ [][\A o \in Objs :
         /\ (~closed[o] /\ closed'[o]) =>
              /\ \A p \in 0..MaxParts : req'[o][p] \in {"none", "done"}
              /\ (req[o][0] = "none" => fin[o] = "wait" /\ wg[o] = 0)
              /\ (req[o][0] # "none" => req'[o][0] = "done")
         /\ closed[o] => (closed'[o] /\ sent'[o] = sent[o])]_vars

\* a multipart upload whose source was closed after two UploadPart requests
\* had returned, one of them with an error, and a single-part upload closed
\* after its PutObject.
C38_Witness ==
  /\ \E o \in Objs :
       /\ closed[o] /\ Cardinality(okParts[o] \cup badParts[o]) >= 2
       /\ badParts[o] # {} /\ okParts[o] # {}
       /\ 0 \notin okParts[o] \cup badParts[o]
  /\ \E o \in Objs : closed[o] /\ okParts[o] = {0}

====
